---- MODULE Spec2Model ----
(***************************************************************************)
(* Citation snowball engine (citation_snowball): the iteration loop of     *)
(* SnowballEngine, the paper / iteration / project repositories it writes  *)
(* to, the candidate filter, the scorer, the discovery tracker and the     *)
(* saturation detector.                                                    *)
(*                                                                         *)
(* Floating point rates are modelled as exact rationals <<num, den>> with  *)
(* den > 0; scores are exact multiples of 1 / (100 * Unit).                *)
(***************************************************************************)
EXTENDS Integers, Sequences, FiniteSets, TLC

VARIABLES
    \* ---- persistent store (one project) ----
    papers,          \* table papers: sequence of rows
    iterations,      \* table iterations: sequence of rows
    projectDb,       \* row of table projects: [current_iteration, is_complete]
    \* ---- SnowballEngine object and the locals of run() ----
    config,          \* project.config
    project,         \* in-memory Project: [current_iteration, is_complete]
    working_set,     \* self.working_set, sequence of external ids
    all_collected,   \* self.all_collected, sequence of external ids
    stop_requested,  \* self._stop_requested
    discoveries,     \* self.discovery_tracker._discoveries
    history,         \* self.saturation_tracker.history
    pc,              \* position of run()
    iteration_count, \* local iteration_count of run()
    iteration_id,    \* local iteration_id of _run_iteration (row index)
    existing_ids,    \* local existing_ids of _collect_candidates
    tasks,           \* collector coroutines handed to asyncio.gather
    candidates_by_source, \* local of _collect_candidates
    candidates,      \* all_candidates returned by _collect_candidates
    selected_papers, \* local selected_papers of _run_iteration
    answered,        \* bookkeeping: a Work Source call of this iteration returned
    metrics,         \* local metrics of run() (NoMetrics while unbound)
    saturation_result, \* local saturation_result of run()
    run_result,      \* what run() returned or raised
    \* ---- bookkeeping of the last repository / detector call ----
    last_call,       \* the last PaperRepository.create call and what it returned
    det_in,          \* input of the last direct SaturationDetector.check call
    det_out,         \* its result
    probe            \* the direct calls of the function under examination

storeVars  == <<papers, iterations, projectDb>>
engineVars == <<config, project, working_set, all_collected, stop_requested,
                discoveries, history, pc, iteration_count, iteration_id,
                existing_ids, tasks, candidates_by_source, candidates,
                selected_papers, answered, metrics, saturation_result,
                run_result>>
callVars   == <<last_call, det_in, det_out, probe>>
vars       == <<storeVars, engineVars, callVars>>

(***************************************************************************)
(* Bounds of the model                                                     *)
(***************************************************************************)
MaxWorks   == 4     \* external ids are 1..MaxWorks
MaxSeeds   == 1     \* seed papers imported into the store
MaxIterCfg == 2     \* largest max_iterations a configuration of the model uses
MaxDetIter == 3     \* largest iteration_number handed to the detector directly
MaxDetNew  == 2     \* largest new_papers handed to the detector directly
MaxTrackerCalls == 3 \* add_discovery calls made on one tracker directly
MaxMetricsLen == 4  \* longest list handed to _calculate_metrics directly

WorkIds == 1..MaxWorks

None == "None"

(***************************************************************************)
(* Exact rationals standing for the float rates and thresholds             *)
(***************************************************************************)
Rat(n, d) == <<n, d>>
RatLT(a, b) == a[1] * b[2] < b[1] * a[2]
RatEQ(a, b) == a[1] * b[2] = b[1] * a[2]
RatGE(a, b) == ~RatLT(a, b)
RatZero == Rat(0, 1)
RatOne  == Rat(1, 1)

(***************************************************************************)
(* SaturationDetector.check (saturation.py)                                *)
(***************************************************************************)
SaturationResult(sat, reason, conf) ==
    [is_saturated |-> sat, reason |-> reason, confidence |-> conf]

ReasonNoNew   == "No new papers added this iteration"
ReasonMaxIter == "Maximum iterations reached"
ReasonGrowth  == "Growth rate below threshold"
ReasonNovelty == "Novelty rate below threshold"

\* 0.8 + (1.0 - growth_rate / growth_threshold) * 0.2  =  1 - g / (5 t)
GrowthConfidence(g, t) ==
    Rat(5 * g[2] * t[1] - g[1] * t[2], 5 * g[2] * t[1])

\* check with the maximum-iterations rule tried before the no-new-papers rule
check_MaxIterationsFirst(m, cfg) ==
    IF m.iteration_number >= cfg.max_iterations
      THEN SaturationResult(TRUE, ReasonMaxIter, RatOne)
    ELSE IF m.new_papers = 0
      THEN SaturationResult(TRUE, ReasonNoNew, RatOne)
    ELSE IF RatLT(m.growth_rate, cfg.growth_threshold)
      THEN SaturationResult(TRUE, ReasonGrowth,
                            GrowthConfidence(m.growth_rate, cfg.growth_threshold))
    ELSE IF RatLT(m.novelty_rate, cfg.novelty_threshold)
      THEN SaturationResult(TRUE, ReasonNovelty, Rat(9, 10))
    ELSE SaturationResult(FALSE, None, RatZero)

\* check with the novelty rule tried before the growth rule
check_NoveltyFirst(m, cfg) ==
    IF m.new_papers = 0
      THEN SaturationResult(TRUE, ReasonNoNew, RatOne)
    ELSE IF m.iteration_number >= cfg.max_iterations
      THEN SaturationResult(TRUE, ReasonMaxIter, RatOne)
    ELSE IF RatLT(m.novelty_rate, cfg.novelty_threshold)
      THEN SaturationResult(TRUE, ReasonNovelty, Rat(9, 10))
    ELSE IF RatLT(m.growth_rate, cfg.growth_threshold)
      THEN SaturationResult(TRUE, ReasonGrowth,
                            GrowthConfidence(m.growth_rate, cfg.growth_threshold))
    ELSE SaturationResult(FALSE, None, RatZero)

\* check with <= in place of < in the growth and novelty rules
check_ThresholdInclusive(m, cfg) ==
    IF m.new_papers = 0
      THEN SaturationResult(TRUE, ReasonNoNew, RatOne)
    ELSE IF m.iteration_number >= cfg.max_iterations
      THEN SaturationResult(TRUE, ReasonMaxIter, RatOne)
    ELSE IF ~RatLT(cfg.growth_threshold, m.growth_rate)
      THEN SaturationResult(TRUE, ReasonGrowth,
                            GrowthConfidence(m.growth_rate, cfg.growth_threshold))
    ELSE IF ~RatLT(cfg.novelty_threshold, m.novelty_rate)
      THEN SaturationResult(TRUE, ReasonNovelty, Rat(9, 10))
    ELSE SaturationResult(FALSE, None, RatZero)

\* check without the no-new-papers rule
check_WithoutNoNewPapers(m, cfg) ==
    IF m.iteration_number >= cfg.max_iterations
      THEN SaturationResult(TRUE, ReasonMaxIter, RatOne)
    ELSE IF RatLT(m.growth_rate, cfg.growth_threshold)
      THEN SaturationResult(TRUE, ReasonGrowth,
                            GrowthConfidence(m.growth_rate, cfg.growth_threshold))
    ELSE IF RatLT(m.novelty_rate, cfg.novelty_threshold)
      THEN SaturationResult(TRUE, ReasonNovelty, Rat(9, 10))
    ELSE SaturationResult(FALSE, None, RatZero)

check(m, cfg) ==
    IF m.new_papers = 0
      THEN SaturationResult(TRUE, ReasonNoNew, RatOne)
    ELSE IF m.iteration_number >= cfg.max_iterations
      THEN SaturationResult(TRUE, ReasonMaxIter, RatOne)
    ELSE IF RatLT(m.growth_rate, cfg.growth_threshold)
      THEN SaturationResult(TRUE, ReasonGrowth,
                            GrowthConfidence(m.growth_rate, cfg.growth_threshold))
    ELSE IF RatLT(m.novelty_rate, cfg.novelty_threshold)
      THEN SaturationResult(TRUE, ReasonNovelty, Rat(9, 10))
    ELSE SaturationResult(FALSE, None, RatZero)

(***************************************************************************)
(* Sequence helpers                                                        *)
(***************************************************************************)
Min(a, b) == IF a < b THEN a ELSE b
Max(a, b) == IF a > b THEN a ELSE b

RECURSIVE SetToSortedSeq(_)
SetToSortedSeq(S) ==
    IF S = {} THEN <<>>
    ELSE LET x == CHOOSE y \in S : \A z \in S : y <= z
         IN  <<x>> \o SetToSortedSeq(S \ {x})

Range(s) == { s[i] : i \in DOMAIN s }

(***************************************************************************)
(* The provider's works. The engine treats a Work as a value; the model    *)
(* fixes the attributes of each external id (Work, core/models.py).        *)
(***************************************************************************)
CurrentYear == 2026

Kind(w) == (w - 1) % 4

publication_year(w) ==       \* 0 stands for None
    CASE Kind(w) = 0 -> 2020
      [] Kind(w) = 1 -> 0
      [] Kind(w) = 2 -> 2018
      [] OTHER       -> 2023

cited_by_count(w) ==
    CASE Kind(w) = 0 -> 100
      [] Kind(w) = 1 -> 10
      [] Kind(w) = 2 -> 50
      [] OTHER       -> 20

counts_by_year(w) ==
    CASE Kind(w) = 0 -> << <<2024, 30>>, <<2025, 40>>, <<2026, 30>> >>
      [] Kind(w) = 1 -> << <<2025, 5>> >>
      [] OTHER       -> << >>

is_retracted(w) == Kind(w) = 2

work_type(w) == IF Kind(w) = 3 THEN "Review" ELSE "article"

work_language(w) == IF Kind(w) = 0 THEN "en" ELSE None

author_ids(w) ==
    CASE Kind(w) = 0 -> <<1, 2>>
      [] Kind(w) = 1 -> <<2>>
      [] Kind(w) = 2 -> << >>
      [] OTHER       -> <<1>>

referenced_works(w) == IF w < MaxWorks THEN <<w + 1>> ELSE << >>

(***************************************************************************)
(* PaperFilter (filtering.py)                                              *)
(***************************************************************************)
\* str.lower() on the type and language strings the model uses
Lower(s) ==
    CASE s = "Review"         -> "review"
      [] s = "Article"        -> "article"
      [] s = "Preprint"       -> "preprint"
      [] s = "Posted-Content" -> "posted-content"
      [] s = "EN"             -> "en"
      [] OTHER                -> s

\* str.replace("-", "_")
ReplaceDash(s) ==
    CASE s = "journal-article" -> "journal_article"
      [] s = "posted-content"  -> "posted_content"
      [] s = "book-chapter"    -> "book_chapter"
      [] OTHER                 -> s

valid_types == {"journal-article", "article", "review", "preprint",
                "posted-content", "book", "book-chapter"}

exclude_types == {"preprint", "posted-content"}

is_valid_type(type, cfg) ==
    IF type = None THEN FALSE
    ELSE LET wt == ReplaceDash(Lower(type))
             ok == wt \in { ReplaceDash(t) : t \in valid_types }
         IN  IF cfg.include_preprints THEN ok
             ELSE ok /\ wt \notin exclude_types

\* _is_valid_language rejecting a work without language metadata
is_valid_language_RejectsMissing(lang, cfg) ==
    IF lang = None \/ lang = "" THEN FALSE
    ELSE Lower(lang) = Lower(cfg.language)

\* _is_valid_language: "not work.language" holds for None and for ""
is_valid_language(lang, cfg) ==
    IF lang = None \/ lang = "" THEN TRUE
    ELSE Lower(lang) = Lower(cfg.language)

\* a work as the filter reads it
WorkRec(w) ==
    [openalex_id |-> w, publication_year |-> publication_year(w),
     type |-> work_type(w), language |-> work_language(w),
     cited_by_count |-> cited_by_count(w), is_retracted |-> is_retracted(w)]

\* should_include without its last rule
should_include_WithoutRetracted(work, cfg) ==
    IF /\ work.publication_year # 0
       /\ \/ cfg.min_year # 0 /\ work.publication_year < cfg.min_year
          \/ cfg.max_year # 0 /\ work.publication_year > cfg.max_year
      THEN FALSE
    ELSE IF ~is_valid_type(work.type, cfg) THEN FALSE
    ELSE IF ~is_valid_language(work.language, cfg) THEN FALSE
    ELSE IF work.cited_by_count < cfg.min_citations THEN FALSE
    ELSE TRUE

should_include(work, cfg) ==
    IF /\ work.publication_year # 0
       /\ \/ cfg.min_year # 0 /\ work.publication_year < cfg.min_year
          \/ cfg.max_year # 0 /\ work.publication_year > cfg.max_year
      THEN FALSE
    ELSE IF ~is_valid_type(work.type, cfg) THEN FALSE
    ELSE IF ~is_valid_language(work.language, cfg) THEN FALSE
    ELSE IF work.cited_by_count < cfg.min_citations THEN FALSE
    ELSE IF work.is_retracted THEN FALSE
    ELSE TRUE

should_exclude(work_id, ids) == work_id \in ids

(***************************************************************************)
(* DiscoveryTracker (filtering.py)                                         *)
(***************************************************************************)
priority(method) ==
    CASE method = "author"   -> 3
      [] method = "forward"  -> 2
      [] method = "backward" -> 1
      [] method = "related"  -> 1
      [] OTHER               -> 0

\* add_discovery that also replaces the record on equal priority
add_discovery_ReplacesOnEqual(D, work_id, method, source_ids) ==
    IF work_id \in DOMAIN D
      THEN IF priority(method) >= priority(D[work_id].method)
             THEN [D EXCEPT ![work_id] = [method |-> method, sources |-> source_ids]]
             ELSE [D EXCEPT ![work_id].sources = @ \cup source_ids]
      ELSE [x \in DOMAIN D \cup {work_id} |->
               IF x = work_id THEN [method |-> method, sources |-> source_ids]
               ELSE D[x]]

add_discovery(D, work_id, method, source_ids) ==
    IF work_id \in DOMAIN D
      THEN IF priority(method) > priority(D[work_id].method)
             THEN [D EXCEPT ![work_id] = [method |-> method, sources |-> source_ids]]
             ELSE [D EXCEPT ![work_id].sources = @ \cup source_ids]
      ELSE [x \in DOMAIN D \cup {work_id} |->
               IF x = work_id THEN [method |-> method, sources |-> source_ids]
               ELSE D[x]]

get_discovery_method(D, work_id) ==
    IF work_id \in DOMAIN D THEN D[work_id].method ELSE "seed"

get_discovery_sources(D, work_id) ==
    IF work_id \in DOMAIN D THEN D[work_id].sources ELSE {}

EmptyTracker == [x \in {} |-> [method |-> "seed", sources |-> {}]]

(***************************************************************************)
(* Scorer (scoring.py). A component c in [0, 1] is the integer c * Unit;   *)
(* a weight is given in hundredths; the total is in 1 / (100 * Unit).      *)
(***************************************************************************)
Unit == 25200

weight_citation_velocity == 25
weight_recent_citations  == 20
weight_foundational      == 25
weight_author_overlap    == 15
weight_recency           == 15

max_expected_velocity == 100
max_expected_recent   == 100
decay_period          == 10

\* create_default_context: the papers of the working set stand as seeds
create_default_context(seed_papers) ==
    [seed_papers  |-> seed_papers,
     \* seed.referenced_works of each seed paper, as the scorer reads it
     seed_references |-> [i \in DOMAIN seed_papers |-> referenced_works(seed_papers[i])],
     seed_authors |-> UNION { Range(author_ids(seed_papers[i])) : i \in DOMAIN seed_papers },
     current_year |-> CurrentYear]

calculate_citation_velocity(w, ctx) ==
    IF publication_year(w) = 0 \/ publication_year(w) >= ctx.current_year THEN 0
    ELSE LET age == ctx.current_year - publication_year(w)
         IN  Min((cited_by_count(w) * Unit) \div (age * max_expected_velocity), Unit)

RECURSIVE SumCounts(_, _)
SumCounts(cs, years) ==
    IF cs = <<>> THEN 0
    ELSE (IF cs[1][1] \in years THEN cs[1][2] ELSE 0) + SumCounts(Tail(cs), years)

\* comparing a year with a missing publication year raises TypeError
RecentCitationsRaises(w) == counts_by_year(w) # <<>> /\ publication_year(w) = 0

calculate_recent_citations(w, ctx) ==
    IF counts_by_year(w) = <<>> THEN 0
    ELSE LET recent_total == SumCounts(counts_by_year(w),
                                { ctx.current_year - i : i \in
                                    { j \in 0..2 : ctx.current_year - j >= publication_year(w) } })
         IN  Min((recent_total * Unit) \div max_expected_recent, Unit)

\* occurrences of w in a reference list
RECURSIVE Occurrences(_, _)
Occurrences(refs, w) ==
    IF refs = <<>> THEN 0
    ELSE (IF Head(refs) = w THEN 1 ELSE 0) + Occurrences(Tail(refs), w)

RECURSIVE SumOccurrences(_, _)
SumOccurrences(lists, w) ==
    IF lists = <<>> THEN 0
    ELSE Occurrences(Head(lists), w) + SumOccurrences(Tail(lists), w)

\* _calculate_foundational_score without the break: every matching
\* reference of a seed counts
calculate_foundational_score_CountsEveryReference(w, ctx) ==
    IF ctx.seed_papers = <<>> THEN 0
    ELSE (SumOccurrences(ctx.seed_references, w) * Unit) \div Len(ctx.seed_papers)

\* _calculate_foundational_score: the inner loop stops at the first
\* reference of a seed that is the work, so a seed counts once
calculate_foundational_score(w, ctx) ==
    IF ctx.seed_papers = <<>> THEN 0
    ELSE LET citing == { i \in DOMAIN ctx.seed_papers :
                           w \in Range(ctx.seed_references[i]) }
         IN  (Cardinality(citing) * Unit) \div Len(ctx.seed_papers)

calculate_author_overlap(w, ctx) ==
    IF ctx.seed_authors = {} THEN 0
    ELSE IF author_ids(w) = <<>> THEN 0
    ELSE LET work_author_ids == Range(author_ids(w))
         IN  (Cardinality(work_author_ids \cap ctx.seed_authors) * Unit)
                 \div Cardinality(work_author_ids)

calculate_recency_bonus(w, ctx) ==
    IF publication_year(w) = 0 THEN 0
    ELSE LET age == ctx.current_year - publication_year(w)
         IN  IF age < 0 THEN 0
             ELSE Max(0, Unit - (age * Unit) \div decay_period)

\* get_score_breakdown: the five components and their weighted sum
get_score_breakdown(w, ctx) ==
    LET citation_velocity  == calculate_citation_velocity(w, ctx)
        recent_citations   == calculate_recent_citations(w, ctx)
        foundational_score == calculate_foundational_score(w, ctx)
        author_overlap     == calculate_author_overlap(w, ctx)
        recency_bonus      == calculate_recency_bonus(w, ctx)
    IN  [citation_velocity  |-> citation_velocity,
         recent_citations   |-> recent_citations,
         foundational_score |-> foundational_score,
         author_overlap     |-> author_overlap,
         recency_bonus      |-> recency_bonus,
         total |-> weight_citation_velocity * citation_velocity
                 + weight_recent_citations  * recent_citations
                 + weight_foundational      * foundational_score
                 + weight_author_overlap    * author_overlap
                 + weight_recency           * recency_bonus]

\* calculate_score: breakdown.total
calculate_score(w, ctx) == get_score_breakdown(w, ctx).total

\* list.sort(key = score, reverse = True): stable, descending
RECURSIVE InsertByScore(_, _)
InsertByScore(sorted, x) ==
    IF sorted = <<>> THEN <<x>>
    ELSE IF sorted[1].score >= x.score
           THEN <<sorted[1]>> \o InsertByScore(Tail(sorted), x)
           ELSE <<x>> \o sorted

RECURSIVE SortByScore(_)
SortByScore(s) ==
    IF s = <<>> THEN <<>>
    ELSE InsertByScore(SortByScore(SubSeq(s, 1, Len(s) - 1)), s[Len(s)])

(***************************************************************************)
(* Repositories (db/repository.py)                                         *)
(***************************************************************************)
PaperRow(oid, method, sources, iter, score) ==
    [openalex_id |-> oid, discovery_method |-> method, discovered_from |-> sources,
     iteration_added |-> iter, score |-> score]

\* SELECT ... WHERE openalex_id = ? (fetchone): index of the first row, 0 if none
get_by_openalex_id(table, oid) ==
    IF \E i \in DOMAIN table : table[i].openalex_id = oid
      THEN CHOOSE i \in DOMAIN table :
             /\ table[i].openalex_id = oid
             /\ \A j \in DOMAIN table : table[j].openalex_id = oid => i <= j
      ELSE 0

get_all_openalex_ids(table) == { table[i].openalex_id : i \in DOMAIN table }

\* ... WHERE discovery_method = 'seed' ORDER BY title (titles order as the ids do)
list_seeds(table) ==
    SetToSortedSeq({ table[i].openalex_id : i \in
                       { j \in DOMAIN table : table[j].discovery_method = "seed" } })

\* create without the lookup of the external id: every call inserts
PaperRepository_create_AlwaysInserts(table, paper) ==
    [table |-> Append(table, paper), returned |-> paper]

\* create as an upsert: a stored record is replaced by the paper handed over
PaperRepository_create_Upserts(table, paper) ==
    LET existing == get_by_openalex_id(table, paper.openalex_id)
    IN  IF existing # 0
          THEN [table |-> [table EXCEPT ![existing] = paper], returned |-> paper]
          ELSE [table |-> Append(table, paper), returned |-> paper]

\* PaperRepository.create: the table after the call and the record returned
PaperRepository_create(table, paper) ==
    LET existing == get_by_openalex_id(table, paper.openalex_id)
    IN  IF existing # 0
          THEN [table |-> table, returned |-> table[existing]]
          ELSE [table |-> Append(table, paper), returned |-> paper]

\* what the last create call was given, found and returned
CreateCall(table, paper) ==
    [openalex_id |-> paper.openalex_id,
     existed     |-> get_by_openalex_id(table, paper.openalex_id) # 0,
     table_before |-> table,
     given       |-> paper,
     returned    |-> PaperRepository_create(table, paper).returned]

NoCall == [openalex_id |-> 0, existed |-> FALSE, table_before |-> <<>>,
           given |-> PaperRow(0, "seed", {}, 0, 0),
           returned |-> PaperRow(0, "seed", {}, 0, 0)]

NoMetrics == [iteration_number |-> 0, papers_before |-> 0, papers_after |-> 0,
              new_papers |-> 0, growth_rate |-> RatZero, novelty_rate |-> RatZero]

\* datetime.now() as the engine's specification sees it: the engine model
\* does not observe the wall clock, every instant it stamps is this one
Epoch == 0

IterationRow(n, now) ==
    [iteration_number |-> n, started_at |-> now, completed |-> FALSE,
     completed_at |-> None, metrics |-> NoMetrics]

\* create without the lookup of the iteration number: every call inserts
IterationRepository_create_AlwaysInserts(table, n, now) ==
    [table |-> Append(table, IterationRow(n, now)), id |-> Len(table) + 1]

\* IterationRepository.create: the table after the call and the id returned
IterationRepository_create(table, n, now) ==
    IF \E i \in DOMAIN table : table[i].iteration_number = n
      THEN [table |-> table,
            id |-> CHOOSE i \in DOMAIN table : table[i].iteration_number = n]
      ELSE [table |-> Append(table, IterationRow(n, now)), id |-> Len(table) + 1]

\* UPDATE iterations SET completed_at = ?, metrics = ? WHERE id = ?
IterationRepository_complete(table, id, m, now) ==
    IF id \in DOMAIN table
      THEN [table EXCEPT ![id] = [@ EXCEPT !.completed = TRUE,
                                           !.completed_at = now, !.metrics = m]]
      ELSE table

(***************************************************************************)
(* Project configuration (ProjectConfig, core/models.py)                   *)
(***************************************************************************)
IterationModes == {"automatic", "semi-automatic", "manual", "fixed"}

DefaultFilterConfig ==
    [min_year |-> 0, max_year |-> 0, min_citations |-> 0,
     include_preprints |-> TRUE, language |-> "en"]

EngineConfig(mi, ppi, gt, nt, mode) ==
    [max_iterations |-> mi, papers_per_iteration |-> ppi,
     max_papers |-> 500,
     growth_threshold |-> gt, novelty_threshold |-> nt, iteration_mode |-> mode,
     min_year |-> 0, max_year |-> 0, min_citations |-> 0,
     include_preprints |-> TRUE, language |-> "en"]

\* configurations the engine runs under: the defaults of ProjectConfig with
\* a small papers_per_iteration and the smallest and largest max_iterations,
\* the fixed iteration mode, thresholds no rate can reach, thresholds of zero
DefaultGrowth  == Rat(1, 20)
DefaultNovelty == Rat(1, 10)

Configs ==
    { EngineConfig(mi, 2, DefaultGrowth, DefaultNovelty, "semi-automatic") :
        mi \in {0, MaxIterCfg} }
    \cup { EngineConfig(MaxIterCfg, 1, DefaultGrowth, DefaultNovelty, "fixed"),
           EngineConfig(MaxIterCfg, 2, Rat(3, 2), Rat(3, 2), "manual"),
           EngineConfig(MaxIterCfg, 2, RatZero, RatZero, "automatic") }

(***************************************************************************)
(* SnowballEngine (snowball/engine.py)                                     *)
(***************************************************************************)
Running == {"ready", "loop", "collecting", "persisting", "callback"}
Ended   == {"done", "raised", "crashed"}

NoResult == [kind |-> "none", error |-> None, value |-> NoMetrics]
Returned(m) == [kind |-> "returned", error |-> None, value |-> m]
Raised(e)   == [kind |-> "raised", error |-> e, value |-> NoMetrics]

\* the exceptions run() ends with
NoSeedsError        == "ValueError: No seed papers found in project"
UnboundMetricsError == "UnboundLocalError: metrics"
ScoreError          == "TypeError: unsupported operand type(s) for -: 'int' and 'NoneType'"
PaperIdError        == "ValidationError: Paper id Field required"

NoSaturationResult == SaturationResult(FALSE, "unset", RatZero)

NoProbe == [op |-> "none"]

EmptyCandidates == [forward |-> <<>>, backward |-> <<>>, author |-> <<>>]

EngineInit ==
    /\ working_set = <<>>
    /\ all_collected = <<>>
    /\ stop_requested = FALSE
    /\ discoveries = EmptyTracker
    /\ history = <<>>
    /\ iteration_count = 0
    /\ iteration_id = 0
    /\ existing_ids = {}
    /\ tasks = {}
    /\ candidates_by_source = EmptyCandidates
    /\ candidates = <<>>
    /\ selected_papers = <<>>
    /\ answered = FALSE
    /\ metrics = NoMetrics
    /\ saturation_result = NoSaturationResult
    /\ run_result = NoResult

\* the same values, as the next state
EngineReset ==
    /\ working_set' = <<>>
    /\ all_collected' = <<>>
    /\ stop_requested' = FALSE
    /\ discoveries' = EmptyTracker
    /\ history' = <<>>
    /\ iteration_count' = 0
    /\ iteration_id' = 0
    /\ existing_ids' = {}
    /\ tasks' = {}
    /\ candidates_by_source' = EmptyCandidates
    /\ candidates' = <<>>
    /\ selected_papers' = <<>>
    /\ answered' = FALSE
    /\ metrics' = NoMetrics
    /\ saturation_result' = NoSaturationResult
    /\ run_result' = NoResult

Init ==
    /\ papers = <<>>
    /\ iterations = <<>>
    /\ projectDb = [current_iteration |-> 0, is_complete |-> FALSE]
    /\ config \in Configs
    /\ pc = "idle"
    /\ project = [current_iteration |-> 0, is_complete |-> FALSE]
    /\ EngineInit
    /\ last_call = NoCall
    /\ det_in = <<>>
    /\ det_out = NoSaturationResult
    /\ probe = NoProbe

\* the seed import recording the work as its own source
ImportSeed_RecordsItselfAsSource(w) ==
    /\ pc = "idle"
    /\ Len(papers) < MaxSeeds
    /\ \A i \in DOMAIN papers : papers[i].openalex_id < w
    /\ LET paper == PaperRow(w, "seed", {w}, 0, 0)
       IN  /\ papers' = PaperRepository_create(papers, paper).table
           /\ last_call' = CreateCall(papers, paper)
    /\ UNCHANGED <<iterations, projectDb, engineVars, det_in, det_out, probe>>

\* cli/app.py, seed import: a resolved work not yet in the store becomes a seed
ImportSeed(w) ==
    /\ pc = "idle"
    /\ Len(papers) < MaxSeeds
    /\ \A i \in DOMAIN papers : papers[i].openalex_id < w
    /\ LET paper == PaperRow(w, "seed", {}, 0, 0)
       IN  /\ papers' = PaperRepository_create(papers, paper).table
           /\ last_call' = CreateCall(papers, paper)
    /\ UNCHANGED <<iterations, projectDb, engineVars, det_in, det_out, probe>>

\* SnowballEngine.__init__ on a project loaded from the store
NewEngine ==
    /\ pc = "idle"
    /\ pc' = "ready"
    /\ project' = projectDb
    /\ UNCHANGED <<storeVars, callVars, config, working_set, all_collected,
                   stop_requested, discoveries, history, iteration_count,
                   iteration_id, existing_ids, tasks, candidates_by_source,
                   candidates, selected_papers, answered, metrics,
                   saturation_result, run_result>>

\* run() without the check for an empty working set
RunInitialize_NoSeedCheck ==
    /\ pc = "ready"
    /\ working_set' = list_seeds(papers)
    /\ all_collected' = list_seeds(papers)
    /\ pc' = "loop"
    /\ run_result' = run_result
    /\ iteration_count' = 0
    /\ UNCHANGED <<storeVars, callVars, config, project, stop_requested,
                   discoveries, history, iteration_id, existing_ids, tasks,
                   candidates_by_source, candidates, selected_papers,
                   answered, metrics, saturation_result>>

\* run(): _initialize, then the check for an empty working set
RunInitialize ==
    /\ pc = "ready"
    /\ working_set' = list_seeds(papers)
    /\ all_collected' = list_seeds(papers)
    /\ IF list_seeds(papers) = <<>>
         THEN /\ pc' = "raised"
              /\ run_result' = Raised(NoSeedsError)
         ELSE /\ pc' = "loop"
              /\ run_result' = run_result
    /\ iteration_count' = 0
    /\ UNCHANGED <<storeVars, callVars, config, project, stop_requested,
                   discoveries, history, iteration_id, existing_ids, tasks,
                   candidates_by_source, candidates, selected_papers,
                   answered, metrics, saturation_result>>

\* stop()
Stop ==
    /\ pc \in Running
    /\ ~stop_requested
    /\ stop_requested' = TRUE
    /\ UNCHANGED <<storeVars, callVars, config, project, working_set,
                   all_collected, discoveries, history, pc, iteration_count,
                   iteration_id, existing_ids, tasks, candidates_by_source,
                   candidates, selected_papers, answered, metrics,
                   saturation_result, run_result>>

\* what the Work Source answers when a call succeeds: the provider's citation
\* graph is the one the works' attributes describe
get_citing_works(p) ==
    SetToSortedSeq({ w \in WorkIds : p \in Range(referenced_works(w)) })

get_works_batch(ids) == ids

get_author_works(a) ==
    SetToSortedSeq({ w \in WorkIds : a \in Range(author_ids(w)) })

Task(i, ch, stage) == [idx |-> i, paper |-> working_set[i], channel |-> ch, stage |-> stage]

MaxAuthors == 5

\* the first authors of a paper, paper.author_ids[:5]
first_authors(w) == SubSeq(author_ids(w), 1, Min(Len(author_ids(w)), MaxAuthors))

\* the loop over response.results without the test against existing_ids
RECURSIVE Emit_KeepsExisting(_, _, _, _, _)
Emit_KeepsExisting(acc, results, method, paper, ids) ==
    IF results = <<>> THEN acc
    ELSE LET w == Head(results)
             next == [cands |-> Append(acc.cands, w),
                      tracker |-> add_discovery(acc.tracker, w, method, {paper})]
         IN  Emit_KeepsExisting(next, Tail(results), method, paper, ids)

\* the loop over response.results of the three collectors: every work not in
\* existing_ids is appended to the channel's list and recorded in the tracker
RECURSIVE Emit(_, _, _, _, _)
Emit(acc, results, method, paper, ids) ==
    IF results = <<>> THEN acc
    ELSE LET w == Head(results)
             next == IF w \notin ids
                       THEN [cands |-> Append(acc.cands, w),
                             tracker |-> add_discovery(acc.tracker, w, method, {paper})]
                       ELSE acc
         IN  Emit(next, Tail(results), method, paper, ids)

\* _run_iteration(n) up to the asyncio.gather of _collect_candidates: the
\* iteration record, the snapshot of the stored ids, one task per paper of the
\* working set and channel
StartIteration(n) ==
    LET created == IterationRepository_create(iterations, n, Epoch)
    IN  /\ iterations' = created.table
        /\ iteration_id' = created.id
        /\ existing_ids' = get_all_openalex_ids(papers)
        /\ candidates_by_source' = EmptyCandidates
        /\ tasks' = { Task(i, "forward", 1) : i \in DOMAIN working_set }
                    \cup { Task(i, "backward", 1) : i \in DOMAIN working_set }
                    \cup { Task(i, "author", 1) :
                             i \in { j \in DOMAIN working_set :
                                       first_authors(working_set[j]) # <<>> } }
        /\ pc' = "collecting"
        /\ answered' = FALSE

\* run(): the loop test; when it passes, the start of _run_iteration up to
\* the asyncio.gather of _collect_candidates
LoopTop ==
    /\ pc = "loop"
    /\ IF stop_requested
         THEN \* return metrics if self.all_collected else None
              /\ IF all_collected = <<>>
                   THEN pc' = "done" /\ run_result' = NoResult
                   ELSE IF metrics = NoMetrics
                     THEN pc' = "raised" /\ run_result' = Raised(UnboundMetricsError)
                     ELSE pc' = "done" /\ run_result' = Returned(metrics)
              /\ UNCHANGED <<storeVars, project, iteration_count, iteration_id,
                             existing_ids, tasks, candidates_by_source, answered>>
         ELSE /\ iteration_count' = iteration_count + 1
              /\ project' = [project EXCEPT !.current_iteration = iteration_count + 1]
              /\ StartIteration(iteration_count + 1)
              /\ UNCHANGED <<papers, projectDb, run_result>>
    /\ UNCHANGED <<callVars, config, working_set, all_collected, stop_requested,
                   discoveries, history, candidates, selected_papers,
                   metrics, saturation_result>>

\* a collector without the except clause: the failure ends the gather and run()
CollectorFails_Propagates(t) ==
    /\ pc = "collecting"
    /\ t \in tasks
    /\ tasks' = {}
    /\ pc' = "raised"
    /\ run_result' = Raised("HTTPError")
    /\ UNCHANGED <<storeVars, callVars, config, project, working_set,
                   all_collected, stop_requested, discoveries, history,
                   iteration_count, iteration_id, existing_ids,
                   candidates_by_source, candidates, selected_papers,
                   answered, metrics, saturation_result>>

\* one collector coroutine resumes with the failure of its pending call:
\* the except clause swallows it and the coroutine ends
CollectorFails(t) ==
    /\ pc = "collecting"
    /\ t \in tasks
    /\ tasks' = tasks \ {t}
    /\ UNCHANGED <<storeVars, callVars, config, project, working_set,
                   all_collected, stop_requested, discoveries, history, pc,
                   iteration_count, iteration_id, existing_ids,
                   candidates_by_source, candidates, selected_papers,
                   answered, metrics, saturation_result, run_result>>

\* one collector coroutine resumes with the answer to its pending call
CollectorResumes(t) ==
    /\ pc = "collecting"
    /\ t \in tasks
    /\ LET ch      == t.channel
           results == CASE ch = "forward"  -> get_citing_works(t.paper)
                        [] ch = "backward" -> get_works_batch(referenced_works(t.paper))
                        [] OTHER           -> get_author_works(first_authors(t.paper)[t.stage])
           out     == Emit([cands |-> candidates_by_source[ch], tracker |-> discoveries],
                           results, ch, t.paper, existing_ids)
       IN  CASE ch = "forward" ->
                  /\ candidates_by_source' = [candidates_by_source EXCEPT ![ch] = out.cands]
                  /\ discoveries' = out.tracker
                  /\ tasks' = tasks \ {t}
             [] ch = "backward" /\ t.stage = 1 ->
                  \* get_work answered: the work with its referenced_works
                  /\ tasks' = IF referenced_works(t.paper) = <<>>
                                THEN tasks \ {t}
                                ELSE (tasks \ {t}) \cup {[t EXCEPT !.stage = 2]}
                  /\ UNCHANGED <<candidates_by_source, discoveries>>
             [] ch = "backward" /\ t.stage = 2 ->
                  \* get_works_batch answered with the referenced works
                  /\ candidates_by_source' = [candidates_by_source EXCEPT ![ch] = out.cands]
                  /\ discoveries' = out.tracker
                  /\ tasks' = tasks \ {t}
             [] OTHER ->
                  \* get_author_works answered for author number t.stage
                  /\ candidates_by_source' = [candidates_by_source EXCEPT ![ch] = out.cands]
                  /\ discoveries' = out.tracker
                  /\ tasks' = IF t.stage < Len(first_authors(t.paper))
                                THEN (tasks \ {t}) \cup {[t EXCEPT !.stage = @ + 1]}
                                ELSE tasks \ {t}
    /\ answered' = TRUE
    /\ UNCHANGED <<storeVars, callVars, config, project, working_set,
                   all_collected, stop_requested, history, pc, iteration_count,
                   iteration_id, existing_ids, candidates, selected_papers,
                   metrics, saturation_result, run_result>>

\* _filter_candidates
filter_candidates(cands, cfg, ids) ==
    SelectSeq(cands, LAMBDA w : should_include(WorkRec(w), cfg) /\ ~should_exclude(w, ids))

\* _score_candidates: the (work, score) pairs, sorted by score, descending
score_candidates(cands, ctx) ==
    SortByScore([i \in DOMAIN cands |->
                   [openalex_id |-> cands[i], score |-> calculate_score(cands[i], ctx)]])

\* _select_papers: the first min(len, papers_per_iteration) scored candidates
select_papers(scored, cfg) ==
    SubSeq(scored, 1, Min(Len(scored), cfg.papers_per_iteration))

\* _calculate_metrics with the growth rate taken over papers_after
calculate_metrics_OverPapersAfter(n, cands, selected, collected) ==
    LET papers_before == Len(collected) - Len(selected)
        new_papers    == Len(selected)
    IN  [iteration_number |-> n,
         papers_before    |-> papers_before,
         papers_after     |-> Len(collected),
         new_papers       |-> new_papers,
         growth_rate      |-> IF Len(collected) > 0 THEN Rat(new_papers, Len(collected))
                              ELSE RatZero,
         novelty_rate     |-> IF cands # <<>> THEN Rat(new_papers, Len(cands))
                              ELSE RatZero]

\* _calculate_metrics
calculate_metrics(n, cands, selected, collected) ==
    LET papers_before == Len(collected) - Len(selected)
        new_papers    == Len(selected)
    IN  [iteration_number |-> n,
         papers_before    |-> papers_before,
         papers_after     |-> Len(collected),
         new_papers       |-> new_papers,
         growth_rate      |-> IF papers_before > 0 THEN Rat(new_papers, papers_before)
                              ELSE RatZero,
         novelty_rate     |-> IF cands # <<>> THEN Rat(new_papers, Len(cands))
                              ELSE RatZero]

\* the stages after the gather, started without waiting for every collector
AfterGather_WithoutGather ==
    /\ pc = "collecting"
    /\ LET all_candidates == candidates_by_source.forward
                               \o candidates_by_source.backward
                               \o candidates_by_source.author
           filtered == filter_candidates(all_candidates, config,
                                         get_all_openalex_ids(papers))
           context  == create_default_context(working_set)
           scored   == score_candidates(filtered, context)
           selected == select_papers(scored, config)
       IN  /\ candidates' = all_candidates
           /\ IF \E i \in DOMAIN filtered : RecentCitationsRaises(filtered[i])
                THEN /\ pc' = "raised"
                     /\ run_result' = Raised(ScoreError)
                     /\ UNCHANGED <<working_set, all_collected, selected_papers>>
                ELSE IF selected # <<>>
                  THEN /\ pc' = "raised"
                       /\ run_result' = Raised(PaperIdError)
                       /\ UNCHANGED <<working_set, all_collected, selected_papers>>
                  ELSE /\ working_set' = [i \in DOMAIN selected |-> selected[i].openalex_id]
                       /\ all_collected' = all_collected \o
                             [i \in DOMAIN selected |-> selected[i].openalex_id]
                       /\ selected_papers' = selected
                       /\ pc' = "persisting"
                       /\ run_result' = run_result
    /\ UNCHANGED <<storeVars, callVars, config, project, stop_requested,
                   discoveries, history, iteration_count, iteration_id,
                   existing_ids, tasks, candidates_by_source, metrics,
                   saturation_result, answered>>

\* _run_iteration after the gather: combine, filter, score, select, replace
\* the working set. Scoring raises on a work with per-year counts and no
\* publication year. _select_papers builds every selected paper as
\* Paper(...) without the field id, which the model class declares without
\* a default: the construction raises as soon as one candidate is selected.
AfterGather ==
    /\ pc = "collecting"
    /\ tasks = {}
    /\ LET all_candidates == candidates_by_source.forward
                               \o candidates_by_source.backward
                               \o candidates_by_source.author
           filtered == filter_candidates(all_candidates, config,
                                         get_all_openalex_ids(papers))
           context  == create_default_context(working_set)
           scored   == score_candidates(filtered, context)
           selected == select_papers(scored, config)
       IN  /\ candidates' = all_candidates
           /\ IF \E i \in DOMAIN filtered : RecentCitationsRaises(filtered[i])
                THEN /\ pc' = "raised"
                     /\ run_result' = Raised(ScoreError)
                     /\ UNCHANGED <<working_set, all_collected, selected_papers>>
                ELSE IF selected # <<>>
                  THEN /\ pc' = "raised"
                       /\ run_result' = Raised(PaperIdError)
                       /\ UNCHANGED <<working_set, all_collected, selected_papers>>
                  ELSE /\ working_set' = [i \in DOMAIN selected |-> selected[i].openalex_id]
                       /\ all_collected' = all_collected \o
                             [i \in DOMAIN selected |-> selected[i].openalex_id]
                       /\ selected_papers' = selected
                       /\ pc' = "persisting"
                       /\ run_result' = run_result
    /\ UNCHANGED <<storeVars, callVars, config, project, stop_requested,
                   discoveries, history, iteration_count, iteration_id,
                   existing_ids, tasks, candidates_by_source, metrics,
                   saturation_result, answered>>

\* the persistence loop of _run_iteration: one create call per selected paper
RECURSIVE PersistAll(_, _, _, _)
PersistAll(table, selected, tracker, n) ==
    IF selected = <<>> THEN table
    ELSE LET sel   == Head(selected)
             paper == PaperRow(sel.openalex_id,
                               get_discovery_method(tracker, sel.openalex_id),
                               get_discovery_sources(tracker, sel.openalex_id),
                               n, sel.score)
         IN  PersistAll(PaperRepository_create(table, paper).table,
                        Tail(selected), tracker, n)

\* the rest of _run_iteration (persistence loop, metrics,
\* iteration_repo.complete) and, back in run(), saturation_tracker.add_iteration
CompleteIteration ==
    /\ pc = "persisting"
    /\ papers' = PersistAll(papers, selected_papers, discoveries, iteration_count)
    /\ LET m == calculate_metrics(iteration_count, candidates, selected_papers,
                                  all_collected)
       IN  /\ metrics' = m
           /\ iterations' = IterationRepository_complete(iterations, iteration_id, m,
                                                         Epoch)
           /\ history' = Append(history, m)
    /\ pc' = "callback"
    /\ UNCHANGED <<projectDb, callVars, config, project, working_set,
                   all_collected, stop_requested, discoveries, iteration_count,
                   iteration_id, existing_ids, tasks, candidates_by_source,
                   candidates, selected_papers, answered, saturation_result,
                   run_result>>

\* run() after the progress callback without ProjectRepository.update
CheckSaturation_WithoutUpdate ==
    /\ pc = "callback"
    /\ LET res == check(metrics, config)
       IN  /\ saturation_result' = res
           /\ project' = [project EXCEPT !.is_complete = res.is_saturated]
           /\ projectDb' = projectDb
           /\ IF res.is_saturated
                   \/ (config.iteration_mode = "fixed"
                         /\ iteration_count >= config.max_iterations)
                THEN /\ pc' = "done"
                     /\ run_result' = IF all_collected # <<>> THEN Returned(metrics)
                                      ELSE NoResult
                ELSE /\ pc' = "loop"
                     /\ run_result' = run_result
    /\ UNCHANGED <<papers, iterations, callVars, config, working_set,
                   all_collected, stop_requested, discoveries, history,
                   iteration_count, iteration_id, existing_ids, tasks,
                   candidates_by_source, candidates, selected_papers,
                   answered, metrics>>

\* run() after the progress callback: detector, project update, break or loop
CheckSaturation ==
    /\ pc = "callback"
    /\ LET res == check(metrics, config)
       IN  /\ saturation_result' = res
           /\ project' = [project EXCEPT !.is_complete = res.is_saturated]
           /\ projectDb' = [project EXCEPT !.is_complete = res.is_saturated]
           /\ IF res.is_saturated
                   \/ (config.iteration_mode = "fixed"
                         /\ iteration_count >= config.max_iterations)
                THEN /\ pc' = "done"
                     /\ run_result' = IF all_collected # <<>> THEN Returned(metrics)
                                      ELSE NoResult
                ELSE /\ pc' = "loop"
                     /\ run_result' = run_result
    /\ UNCHANGED <<papers, iterations, callVars, config, working_set,
                   all_collected, stop_requested, discoveries, history,
                   iteration_count, iteration_id, existing_ids, tasks,
                   candidates_by_source, candidates, selected_papers,
                   answered, metrics>>

\* the process dies while a run is in progress: the engine object and the
\* locals of run() are gone, the store stays as the last commit left it
Crash ==
    /\ pc \in Running \ {"ready"}
    /\ pc' = "crashed"
    /\ project' = projectDb
    /\ EngineReset
    /\ UNCHANGED <<storeVars, callVars, config>>

\* a new process: the project is loaded from the store again
Restart ==
    /\ pc \in Ended
    /\ pc' = "idle"
    /\ project' = projectDb
    /\ EngineReset
    /\ UNCHANGED <<storeVars, callVars, config>>

Next ==
    \/ \E w \in WorkIds : ImportSeed(w)
    \/ NewEngine
    \/ RunInitialize
    \/ Stop
    \/ LoopTop
    \/ \E t \in tasks : CollectorFails(t)
    \/ \E t \in tasks : CollectorResumes(t)
    \/ AfterGather
    \/ CompleteIteration
    \/ CheckSaturation
    \/ Crash
    \/ Restart

Spec == Init /\ [][Next]_vars


InitialProject == [current_iteration |-> 0, is_complete |-> FALSE]

SeedIds == Range(list_seeds(papers))

\* C2 as the specification states it: from the first iteration on, every
\* seed paper is in the working set for the whole run
C2_SeedsStayInWorkingSet ==
    (pc \in {"loop", "collecting", "persisting", "callback"})
        => (SeedIds \subseteq Range(working_set))

\* C3: an iteration that admits no paper ends the run, whatever the
\* iteration number, the rates and the iteration mode: no further iteration
\* starts, the project is persisted complete and run returns the metrics of
\* that iteration
C3_NoNewPapersStops ==
    (metrics # NoMetrics /\ metrics.new_papers = 0) =>
        /\ pc \in {"callback", "done"}
        /\ iteration_count = metrics.iteration_number
        /\ pc = "done" =>
             /\ projectDb.is_complete
             /\ projectDb.current_iteration = metrics.iteration_number
             /\ run_result = Returned(metrics)

\* C3 witness: the run has returned after an iteration without new papers
\* under thresholds of zero and an iteration number below max_iterations
C3_Witness ==
    /\ pc = "done"
    /\ metrics.iteration_number = 1
    /\ metrics.new_papers = 0
    /\ config.max_iterations > 1
    /\ config.growth_threshold = RatZero
    /\ config.novelty_threshold = RatZero
    /\ projectDb.is_complete
    /\ run_result = Returned(metrics)

\* C4 as the specification states it: a run that starts with at least one
\* seed, is not asked to stop and meets no candidate the scorer raises on
\* never ends by raising
C4_RunWithSeedsReturns ==
    (pc = "raised" /\ ~stop_requested /\ run_result.error # ScoreError)
        => (SeedIds = {})

\* C22 as the specification states it: a run that has ended after a stop
\* requested before its first iteration has returned None without raising;
\* a run that has ended after at least one iteration (none of which raised
\* while scoring or building a paper) has returned the metrics of the last
\* iteration
C22_ReturnsLastMetricsOrNone ==
    /\ (pc \in {"done", "raised"} /\ stop_requested /\ iteration_count = 0
          /\ SeedIds # {})
         => run_result = NoResult
    /\ (pc \in {"done", "raised"} /\ iteration_count >= 1
          /\ run_result.error \notin {ScoreError, PaperIdError})
         => /\ history # <<>>
            /\ run_result = Returned(history[Len(history)])

C8_StoppedIterationCompletes ==
    (stop_requested /\ pc \in {"done", "raised"} /\ iteration_count >= 1
       /\ run_result.error # ScoreError)
        => iterations[iteration_id].completed

\* C9: a run on a store without a seed paper fails with the no-seeds error
\* in initialization: no iteration record, no paper, no pending Work Source
\* call, and the persisted project as it was
C9_NoSeedsFails ==
    (SeedIds = {}) =>
        /\ pc \in {"idle", "ready", "raised"}
        /\ pc = "raised" => run_result = Raised(NoSeedsError)
        /\ iteration_count = 0
        /\ iterations = <<>>
        /\ papers = <<>>
        /\ tasks = {}
        /\ candidates_by_source = EmptyCandidates
        /\ projectDb = InitialProject

\* C9 witness: run has raised the no-seeds error
C9_Witness ==
    /\ pc = "raised"
    /\ run_result = Raised(NoSeedsError)
    /\ SeedIds = {}

\* C10: when every Work Source call of an iteration fails, the iteration
\* has no candidate and no new paper, its record is completed with those
\* metrics, the papers of the store are the ones it started with, and the
\* run returns with the "no new papers" reason instead of raising
C10_AllCallsFail ==
    (iteration_count >= 1 /\ ~answered) =>
        /\ pc # "raised"
        /\ pc \in {"persisting", "callback", "done"} =>
             /\ candidates = <<>>
             /\ selected_papers = <<>>
             /\ get_all_openalex_ids(papers) = existing_ids
             /\ Len(papers) = Cardinality(existing_ids)
        /\ pc \in {"callback", "done"} =>
             /\ metrics.new_papers = 0
             /\ metrics.papers_after = metrics.papers_before
             /\ iterations[iteration_id].completed
             /\ iterations[iteration_id].metrics = metrics
        /\ pc = "done" =>
             /\ saturation_result = SaturationResult(TRUE, ReasonNoNew, RatOne)
             /\ run_result = Returned(metrics)

\* C10 witness: the run has returned after an iteration whose calls all failed
C10_Witness ==
    /\ pc = "done"
    /\ iteration_count = 1
    /\ ~answered
    /\ candidates = <<>>
    /\ saturation_result.reason = ReasonNoNew
    /\ run_result.kind = "returned"

\* C11 as the specification states it: when a Work Source call of the one
\* (channel, source paper) pair of a single-paper working set fails, that
\* pair has contributed no candidate to the iteration
C11_FailedPairContributesNothing ==
    [][\A t \in tasks :
         (CollectorFails(t) /\ Len(working_set) = 1)
             => candidates_by_source[t.channel] = <<>>]_vars

\* C12 as the specification states it: no run ends with an error raised
\* while scoring a candidate or converting it to a Paper
C12_NoCandidateAborts ==
    pc = "raised" => run_result.error \notin {ScoreError, PaperIdError}

\* the candidates collected so far in the iteration, as _collect_candidates
\* combines them, and those of them that pass _filter_candidates
CollectedCandidates ==
    candidates_by_source.forward \o candidates_by_source.backward
        \o candidates_by_source.author

FilteredCandidates ==
    filter_candidates(CollectedCandidates, config, get_all_openalex_ids(papers))

\* C15: no work whose external id was in the store when the collection of
\* the iteration began becomes a candidate, passes the filter or is
\* selected for admission, and the store never holds an external id twice
C15_NoReadmission ==
    /\ pc = "collecting" =>
         /\ \A i \in DOMAIN CollectedCandidates :
              CollectedCandidates[i] \notin existing_ids
         /\ \A i \in DOMAIN FilteredCandidates :
              FilteredCandidates[i] \notin get_all_openalex_ids(papers)
    /\ \A i \in DOMAIN selected_papers :
         selected_papers[i].openalex_id \notin existing_ids
    /\ \A i, j \in DOMAIN papers :
         papers[i].openalex_id = papers[j].openalex_id => i = j

\* C15 witness: the gather has ended, the author call of seed 1 has returned
\* works 1 (the seed itself, in the store) and 4, and only work 4 is a
\* candidate that passes the filter
C15_Witness ==
    /\ pc = "collecting"
    /\ tasks = {}
    /\ working_set = <<1>>
    /\ 1 \in Range(get_author_works(1))
    /\ candidates_by_source.author = <<4>>
    /\ 4 \in Range(FilteredCandidates)

\* C16 as the specification states it: once the selection of an iteration
\* has run (the scorer not having raised), the iteration has selected for
\* admission exactly min(number of filtered candidates, papers_per_iteration)
\* papers
C16_AdmitsTopK ==
    (pc \in {"persisting", "callback", "done", "raised"} /\ iteration_count >= 1
       /\ run_result.error # ScoreError)
        => Len(selected_papers) =
             Min(Len(filter_candidates(candidates, config, get_all_openalex_ids(papers))),
                 config.papers_per_iteration)

\* C31: once run() has finished iteration n (detector consulted, project
\* updated), the stored project has current_iteration = n and is_complete
\* equal to the detector's verdict on that iteration's metrics; a run that
\* returned without a stop request left is_complete true in the store; while
\* a second or later iteration is under way, the stored is_complete is false
C31_ProjectFollowsIterations ==
    /\ (pc \in {"loop", "done"} /\ iteration_count >= 1)
         => /\ history # <<>>
            /\ projectDb.current_iteration = iteration_count
            /\ projectDb.is_complete =
                 check(history[Len(history)], config).is_saturated
    /\ (pc = "done" /\ run_result.kind = "returned" /\ ~stop_requested)
         => projectDb.is_complete
    /\ (pc \in {"collecting", "persisting", "callback"} /\ iteration_count >= 2)
         => ~projectDb.is_complete

\* a run with a seed finished its first iteration, was not asked to stop and
\* returned; the store holds iteration 1 and the completion flag
C31_Witness ==
    /\ pc = "done"
    /\ ~stop_requested
    /\ iteration_count = 1
    /\ run_result.kind = "returned"
    /\ projectDb = [current_iteration |-> 1, is_complete |-> TRUE]

(***************************************************************************)
(* PaperRepository.create called directly, any sequence of calls on the    *)
(* papers of one project                                                   *)
(***************************************************************************)
\* the papers handed to create: a seed as the import builds it, or a paper
\* found through a forward citation in iteration 1
StorePapers ==
    { PaperRow(w, "seed", {}, 0, 0) : w \in WorkIds }
    \cup { PaperRow(w, "forward", {v}, 1, 0) : w \in WorkIds, v \in {1} }

StoreInit ==
    /\ papers = <<>>
    /\ iterations = <<>>
    /\ projectDb = InitialProject
    /\ config = EngineConfig(MaxIterCfg, 2, DefaultGrowth, DefaultNovelty, "semi-automatic")
    /\ pc = "idle"
    /\ project = InitialProject
    /\ EngineInit
    /\ last_call = NoCall
    /\ det_in = <<>>
    /\ det_out = NoSaturationResult
    /\ probe = NoProbe

PaperCreate ==
    /\ \E paper \in StorePapers :
         /\ papers' = PaperRepository_create(papers, paper).table
         /\ last_call' = CreateCall(papers, paper)
    /\ UNCHANGED <<iterations, projectDb, engineVars, det_in, det_out, probe>>

StoreNext == PaperCreate

SpecStore == StoreInit /\ [][StoreNext]_vars

\* C1: no two stored papers share an external id; a create call for an
\* external id already stored inserts nothing, leaves the table as it was
\* and returns the stored record
C1_CreateIdempotent ==
    /\ \A i, j \in DOMAIN papers :
         papers[i].openalex_id = papers[j].openalex_id => i = j
    /\ last_call.existed =>
         /\ papers = last_call.table_before
         /\ \E i \in DOMAIN papers :
              /\ papers[i].openalex_id = last_call.openalex_id
              /\ last_call.returned = papers[i]
    /\ (last_call # NoCall /\ ~last_call.existed) =>
         papers = Append(last_call.table_before, last_call.given)

\* C1 witness: a create call for a stored external id with other field
\* values than the stored record has returned the stored record
C1_Witness ==
    /\ last_call.existed
    /\ last_call.given # last_call.returned
    /\ Len(papers) >= 2
    /\ papers = last_call.table_before

\* C28: a stored paper never changes: every row of the papers table stays
\* as it is in every step, whatever is handed to create for its external id
\* afterwards
C28_StoredPaperNeverChanges ==
    [][\A i \in DOMAIN papers :
          i \in DOMAIN papers' /\ papers'[i] = papers[i]]_vars

\* C28 witness: create was handed a paper found through a forward citation
\* for an external id stored as a seed, and the stored seed is as it was
C28_Witness ==
    /\ last_call.existed
    /\ priority(last_call.given.discovery_method)
          > priority(last_call.returned.discovery_method)
    /\ \E i \in DOMAIN papers :
          /\ papers[i] = last_call.returned
          /\ papers[i].discovery_method = "seed"
          /\ papers[i].iteration_added = 0

(***************************************************************************)
(* SaturationDetector.check called directly, on any metrics record and     *)
(* configuration of a bounded set                                          *)
(***************************************************************************)
DetRates == { RatZero, Rat(1, 50), Rat(1, 20), Rat(1, 10), Rat(1, 5) }

DetMetrics ==
    { [iteration_number |-> n, papers_before |-> 100, papers_after |-> 100 + k,
       new_papers |-> k, growth_rate |-> g, novelty_rate |-> v] :
        n \in 1..MaxDetIter, k \in 0..MaxDetNew, g \in DetRates, v \in DetRates }

\* max_papers: the default, and a corpus size the metrics records reach
DetConfigs ==
    { [EngineConfig(mi, 50, gt, nt, "semi-automatic") EXCEPT !.max_papers = mp] :
        mi \in 1..MaxDetIter, gt \in {Rat(1, 20), Rat(1, 10)},
        nt \in {Rat(1, 10), Rat(1, 5)}, mp \in {101, 500} }

DetInit ==
    /\ papers = <<>>
    /\ iterations = <<>>
    /\ projectDb = [current_iteration |-> 0, is_complete |-> FALSE]
    /\ config = EngineConfig(MaxIterCfg, 2, DefaultGrowth, DefaultNovelty, "semi-automatic")
    /\ pc = "idle"
    /\ project = [current_iteration |-> 0, is_complete |-> FALSE]
    /\ EngineInit
    /\ last_call = NoCall
    /\ det_in = <<>>
    /\ det_out = NoSaturationResult
    /\ probe = NoProbe

DetectorCheck ==
    /\ det_in = <<>>
    /\ \E m \in DetMetrics, cfg \in DetConfigs :
         /\ det_in' = <<m, cfg>>
         /\ det_out' = check(m, cfg)
    /\ UNCHANGED <<storeVars, engineVars, last_call, probe>>

\* the caller has read the result; the detector keeps no state between calls
DetectorReturn ==
    /\ det_in # <<>>
    /\ det_in' = <<>>
    /\ det_out' = NoSaturationResult
    /\ UNCHANGED <<storeVars, engineVars, last_call, probe>>

DetNext == DetectorCheck \/ DetectorReturn

SpecDetector == DetInit /\ [][DetNext]_vars

DetCalled == det_in # <<>>
DetM == det_in[1]
DetCfg == det_in[2]

\* C5: a metrics record with new_papers = 0 is reported saturated with the
\* "no new papers" reason and confidence 1.0, whatever iteration_number,
\* growth_rate and novelty_rate are
C5_NoNewPapersFirst ==
    (DetCalled /\ DetM.new_papers = 0)
        => det_out = SaturationResult(TRUE, ReasonNoNew, RatOne)

\* C5 witness: new_papers = 0 while the maximum-iterations, growth and
\* novelty rules would all match too
C5_Witness ==
    /\ DetCalled
    /\ DetM.new_papers = 0
    /\ DetM.iteration_number >= DetCfg.max_iterations
    /\ RatLT(DetM.growth_rate, DetCfg.growth_threshold)
    /\ RatLT(DetM.novelty_rate, DetCfg.novelty_threshold)
    /\ det_out.reason = ReasonNoNew

\* C6: with new_papers > 0 the rules apply in the order maximum iterations,
\* growth rate, novelty rate, and the first that matches gives the reason;
\* the novelty rule reports confidence 0.9
C6_RuleOrder ==
    (DetCalled /\ DetM.new_papers > 0) =>
        /\ DetM.iteration_number >= DetCfg.max_iterations
             => (det_out.is_saturated /\ det_out.reason = ReasonMaxIter)
        /\ (DetM.iteration_number < DetCfg.max_iterations
              /\ RatLT(DetM.growth_rate, DetCfg.growth_threshold))
             => (det_out.is_saturated /\ det_out.reason = ReasonGrowth)
        /\ (DetM.iteration_number < DetCfg.max_iterations
              /\ ~RatLT(DetM.growth_rate, DetCfg.growth_threshold)
              /\ RatLT(DetM.novelty_rate, DetCfg.novelty_threshold))
             => (det_out.is_saturated /\ det_out.reason = ReasonNovelty
                   /\ RatEQ(det_out.confidence, Rat(9, 10)))

\* C6 witness: the growth rule wins although the novelty rule matches too
C6_Witness ==
    /\ DetCalled
    /\ DetM.new_papers > 0
    /\ DetM.iteration_number < DetCfg.max_iterations
    /\ RatLT(DetM.growth_rate, DetCfg.growth_threshold)
    /\ RatLT(DetM.novelty_rate, DetCfg.novelty_threshold)
    /\ det_out.reason = ReasonGrowth

TrackerMethods == {"seed", "forward", "backward", "author", "related"}

\* the works discovered and the source sets handed over
TrackedIds == {1, 2}
TrackerSources == {{3}, {4}}

TrackerCall(w, m, src) == [work_id |-> w, method |-> m, source_ids |-> src]

AddDiscovery ==
    /\ probe.op \in {"none", "add_discovery"}
    /\ (probe.op = "add_discovery") => (Len(probe.log) < MaxTrackerCalls)
    /\ \E w \in TrackedIds, m \in TrackerMethods, src \in TrackerSources :
         /\ discoveries' = add_discovery(discoveries, w, m, src)
         /\ probe' = [op  |-> "add_discovery",
                      log |-> (IF probe.op = "none" THEN <<>> ELSE probe.log)
                                \o <<TrackerCall(w, m, src)>>]
    /\ UNCHANGED <<storeVars, config, project, working_set, all_collected,
                   stop_requested, history, pc, iteration_count, iteration_id,
                   existing_ids, tasks, candidates_by_source, candidates,
                   selected_papers, answered, metrics, saturation_result,
                   run_result, last_call, det_in, det_out>>

TrackerNext == AddDiscovery

SpecTracker == StoreInit /\ [][TrackerNext]_vars

TrackerLog == IF probe.op = "add_discovery" THEN probe.log ELSE <<>>

\* the calls made for one work id, in order
CallsFor(w) == SelectSeq(TrackerLog, LAMBDA c : c.work_id = w)

\* the method of the earliest call of highest priority
BestMethod(calls) ==
    LET top == CHOOSE i \in DOMAIN calls :
                 /\ \A j \in DOMAIN calls :
                      priority(calls[j].method) <= priority(calls[i].method)
                 /\ \A j \in 1..(i - 1) :
                      priority(calls[j].method) < priority(calls[i].method)
    IN  calls[top].method

\* C13: the method recorded for a work id is the one of highest priority
\* among the calls made for it, the earliest call winning among equal
\* priorities
C13_HighestPriorityMethod ==
    \A w \in TrackedIds :
        IF CallsFor(w) = <<>>
          THEN w \notin DOMAIN discoveries
          ELSE /\ w \in DOMAIN discoveries
               /\ get_discovery_method(discoveries, w) = BestMethod(CallsFor(w))

\* C13 witness: backward, then author, then backward again for one work id
\* ends with method author
C13_Witness ==
    /\ Len(CallsFor(1)) = 3
    /\ CallsFor(1)[1].method = "backward"
    /\ CallsFor(1)[2].method = "author"
    /\ CallsFor(1)[3].method = "backward"
    /\ get_discovery_method(discoveries, 1) = "author"

\* C14 as the specification states it: the source set recorded for a work
\* id is the union of the source sets of all calls made for it
C14_SourcesAreUnion ==
    \A w \in TrackedIds :
        (CallsFor(w) # <<>>) =>
            get_discovery_sources(discoveries, w) =
                UNION { CallsFor(w)[i].source_ids : i \in DOMAIN CallsFor(w) }

(***************************************************************************)
(* SnowballEngine._calculate_metrics called directly: the engine's         *)
(* all_collected ends with the selected papers, which are candidates       *)
(***************************************************************************)
Ids(n) == [i \in 1..n |-> i]

CalculateMetrics ==
    /\ probe.op = "none"
    /\ \E n \in 1..MaxIterCfg, c \in 0..MaxMetricsLen :
         \E k \in 0..c, q \in 0..MaxMetricsLen :
            /\ k <= q
            /\ probe' = [op |-> "calculate_metrics", candidates |-> q,
                         result |-> calculate_metrics(n, Ids(q), Ids(k), Ids(c))]
    /\ UNCHANGED <<storeVars, engineVars, last_call, det_in, det_out>>

\* the caller has read the record
MetricsReturn ==
    /\ probe.op = "calculate_metrics"
    /\ probe' = NoProbe
    /\ UNCHANGED <<storeVars, engineVars, last_call, det_in, det_out>>

MetricsNext == CalculateMetrics \/ MetricsReturn

SpecMetrics == StoreInit /\ [][MetricsNext]_vars

MetricsCalled == probe.op = "calculate_metrics"

\* C17, amended: both rates are >= 0; growth_rate is 0 exactly when
\* papers_before is 0 or new_papers is 0; novelty_rate is 0 exactly when
\* there is no candidate or new_papers is 0
C17_RatesZeroExactly ==
    MetricsCalled =>
        LET m == probe.result
        IN  /\ RatGE(m.growth_rate, RatZero)
            /\ RatGE(m.novelty_rate, RatZero)
            /\ m.growth_rate[2] > 0
            /\ m.novelty_rate[2] > 0
            /\ RatEQ(m.growth_rate, RatZero)
                 <=> (m.papers_before = 0 \/ m.new_papers = 0)
            /\ RatEQ(m.novelty_rate, RatZero)
                 <=> (probe.candidates = 0 \/ m.new_papers = 0)

\* C17 witness: no new paper among several candidates in a corpus of
\* several papers: both rates are 0 with non-zero denominators
C17_Witness ==
    /\ MetricsCalled
    /\ probe.result.papers_before > 0
    /\ probe.candidates > 0
    /\ probe.result.new_papers = 0
    /\ RatEQ(probe.result.growth_rate, RatZero)
    /\ RatEQ(probe.result.novelty_rate, RatZero)

\* C17 as the specification states it: growth_rate is 0 exactly when
\* papers_before is 0, novelty_rate is 0 exactly when there is no candidate
C17_ZeroOnlyOnZeroDenominator ==
    MetricsCalled =>
        /\ RatEQ(probe.result.growth_rate, RatZero) <=> (probe.result.papers_before = 0)
        /\ RatEQ(probe.result.novelty_rate, RatZero) <=> (probe.candidates = 0)

(***************************************************************************)
(* PaperFilter.should_include called directly on works and configurations  *)
(* drawn from small sets; the call is made twice on the same objects       *)
(***************************************************************************)
FilterYears == {0, 2019, 2021}

FilterTypes == {None, "article", "Article", "journal-article", "Review",
                "preprint", "Preprint", "posted-content", "Posted-Content",
                "book-chapter", "dataset"}

FilterLanguages == {None, "", "en", "EN", "fr"}

FilterWorks ==
    [openalex_id : {1}, publication_year : FilterYears, type : FilterTypes,
     language : FilterLanguages, cited_by_count : {0, 5},
     is_retracted : BOOLEAN]

FilterConfigs ==
    [min_year : {0, 2020}, max_year : {0, 2020}, min_citations : {0, 3},
     include_preprints : BOOLEAN, language : {"en", "EN"}]

\* should_include reads work and self.config and assigns to neither
ShouldInclude ==
    /\ probe.op = "none"
    /\ \E work \in FilterWorks, cfg \in FilterConfigs :
         probe' = [op |-> "should_include", work |-> work, cfg |-> cfg,
                   result |-> should_include(work, cfg),
                   again |-> should_include(work, cfg),
                   work_after |-> work, cfg_after |-> cfg]
    /\ UNCHANGED <<storeVars, engineVars, last_call, det_in, det_out>>

\* the caller has read the answers
FilterReturn ==
    /\ probe.op = "should_include"
    /\ probe' = NoProbe
    /\ UNCHANGED <<storeVars, engineVars, last_call, det_in, det_out>>

FilterNext == ShouldInclude \/ FilterReturn

SpecFilter == StoreInit /\ [][FilterNext]_vars

FilterCalled == probe.op = "should_include"

IsPreprintType(type) ==
    type # None /\ Lower(type) \in {"preprint", "posted-content"}

\* C19: with include_preprints false every preprint or posted-content work
\* (any letter case) is rejected; with include_preprints true such a work is
\* accepted when the other rules accept it; a work without a type or with a
\* type outside the allowed set is always rejected
C19_PreprintsAndAllowedTypes ==
    FilterCalled =>
        /\ (~probe.cfg.include_preprints /\ IsPreprintType(probe.work.type))
              => ~probe.result
        /\ (probe.cfg.include_preprints /\ IsPreprintType(probe.work.type))
              => (probe.result
                    = should_include([probe.work EXCEPT !.type = "article"],
                                     probe.cfg))
        /\ (probe.work.type = None \/ Lower(probe.work.type) \notin valid_types)
              => ~probe.result

\* C36: a work without language metadata gets the answer it would get with
\* the configured language, so is never rejected for its language; a work
\* whose language is not the configured one in any letter case is rejected;
\* a work without a publication year gets the answer it would get with a
\* year inside the configured range, so is never rejected for its year
C36_MissingLanguageAndYearPass ==
    (probe.op = "should_include") =>
        /\ probe.work.language \in {None, ""}
             => probe.result =
                  should_include([probe.work EXCEPT !.language = probe.cfg.language],
                                 probe.cfg)
        /\ probe.work.language \notin {None, "", "en", "EN"} => ~probe.result
        /\ probe.work.language \in {"en", "EN"}
             => probe.result =
                  should_include([probe.work EXCEPT !.language = None], probe.cfg)
        /\ probe.work.publication_year = 0
             => probe.result =
                  should_include([probe.work EXCEPT !.publication_year = 2020],
                                 probe.cfg)

\* C36 witness: a work with neither language nor publication year is accepted
\* under a configuration with a year range and a language
C36_Witness ==
    /\ probe.op = "should_include"
    /\ probe.work.language = None
    /\ probe.work.publication_year = 0
    /\ probe.cfg.min_year = 2020
    /\ probe.cfg.max_year = 2020
    /\ probe.result

(***************************************************************************)
(* Two PaperRepository.create calls for one external id of one project,    *)
(* run by two callers on the same database file.  Database.fetchone and    *)
(* Database.execute each open a connection of their own, so a call is two  *)
(* statements: the lookup, then the INSERT.                                *)
(***************************************************************************)
Callers == {1, 2}

IntegrityError == "sqlite3.IntegrityError: UNIQUE constraint failed"

\* INSERT INTO papers on a table whose external id is a unique key within
\* the project: the table after the statement, and whether it succeeded
papers_insert(table, row) ==
    IF \E i \in DOMAIN table : table[i].openalex_id = row.openalex_id
      THEN [table |-> table, ok |-> FALSE]
      ELSE [table |-> Append(table, row), ok |-> TRUE]

CallerStart(paper) == [pc |-> "check", paper |-> paper, returned |-> paper, error |-> None]

\* both callers enter create with a paper of the same external id
ConcurrentCreate ==
    /\ probe.op = "none"
    /\ \E w \in WorkIds : \E v \in {1} :
         probe' = [op |-> "create", openalex_id |-> w,
                   callers |-> [c \in Callers |->
                        IF c = 1 THEN CallerStart(PaperRow(w, "seed", {}, 0, 0))
                                 ELSE CallerStart(PaperRow(w, "forward", {v}, 1, 0))]]
    /\ UNCHANGED <<storeVars, engineVars, last_call, det_in, det_out>>

\* existing = self.get_by_openalex_id(...); if existing: return existing
CreateCheck(c) ==
    /\ probe.op = "create"
    /\ probe.callers[c].pc = "check"
    /\ LET existing == get_by_openalex_id(papers, probe.openalex_id)
       IN  probe' = [probe EXCEPT !.callers[c] =
                        IF existing # 0
                          THEN [@ EXCEPT !.pc = "returned", !.returned = papers[existing]]
                          ELSE [@ EXCEPT !.pc = "insert"]]
    /\ UNCHANGED <<storeVars, engineVars, last_call, det_in, det_out>>

\* self.db.execute("INSERT INTO papers ..."); return paper
CreateInsert(c) ==
    /\ probe.op = "create"
    /\ probe.callers[c].pc = "insert"
    /\ LET r == papers_insert(papers, probe.callers[c].paper)
       IN  /\ papers' = r.table
           /\ probe' = [probe EXCEPT !.callers[c] =
                          IF r.ok THEN [@ EXCEPT !.pc = "returned"]
                                  ELSE [@ EXCEPT !.pc = "raised",
                                                 !.error = IntegrityError]]
    /\ UNCHANGED <<iterations, projectDb, engineVars, last_call, det_in, det_out>>

BothCallsOver ==
    /\ probe.op = "create"
    /\ \A c \in Callers : probe.callers[c].pc \in {"returned", "raised"}

\* both callers have their answer
ConcurrentReturn ==
    /\ BothCallsOver
    /\ probe' = NoProbe
    /\ UNCHANGED <<storeVars, engineVars, last_call, det_in, det_out>>

ConcurrentNext ==
    \/ ConcurrentCreate
    \/ \E c \in Callers : CreateCheck(c)
    \/ \E c \in Callers : CreateInsert(c)
    \/ ConcurrentReturn

SpecConcurrent == StoreInit /\ [][ConcurrentNext]_vars

\* C20: however the two calls interleave, the store ends with exactly one
\* row for the external id and both calls return a record for that id; no
\* duplicate row, no error
C20_ConcurrentCreateSafe ==
    /\ \A i, j \in DOMAIN papers :
         papers[i].openalex_id = papers[j].openalex_id => i = j
    /\ BothCallsOver =>
         /\ Cardinality({ i \in DOMAIN papers :
                            papers[i].openalex_id = probe.openalex_id }) = 1
         /\ \A c \in Callers :
              /\ probe.callers[c].pc = "returned"
              /\ probe.callers[c].returned.openalex_id = probe.openalex_id

(***************************************************************************)
(* IterationRepository.create and .complete called directly on the         *)
(* iterations of one project, at instants of a clock that advances with    *)
(* every call                                                              *)
(***************************************************************************)
MaxClock == 4

IterationClock == IF probe.op = "iterations" THEN probe.clock ELSE 0

\* metrics records handed to complete
IterationMetricsSet ==
    { [NoMetrics EXCEPT !.iteration_number = n, !.papers_before = b,
                        !.papers_after = b] : n \in 1..MaxIterCfg, b \in 1..2 }

IterationCreate ==
    /\ IterationClock < MaxClock
    /\ LET now == IterationClock + 1
       IN  \E n \in 1..MaxIterCfg :
             LET created == IterationRepository_create(iterations, n, now)
             IN  /\ iterations' = created.table
                 /\ probe' = [op |-> "iterations", clock |-> now,
                              call |-> "create", number |-> n,
                              existed |-> \E i \in DOMAIN iterations :
                                            iterations[i].iteration_number = n,
                              table_before |-> iterations, id |-> created.id]
    /\ UNCHANGED <<papers, projectDb, engineVars, last_call, det_in, det_out>>

IterationComplete ==
    /\ IterationClock < MaxClock
    /\ LET now == IterationClock + 1
       IN  \E id \in DOMAIN iterations : \E m \in IterationMetricsSet :
             /\ m.iteration_number = iterations[id].iteration_number
             /\ iterations' = IterationRepository_complete(iterations, id, m, now)
             /\ probe' = [op |-> "iterations", clock |-> now,
                          call |-> "complete",
                          number |-> iterations[id].iteration_number,
                          existed |-> TRUE, table_before |-> iterations,
                          id |-> id]
    /\ UNCHANGED <<papers, projectDb, engineVars, last_call, det_in, det_out>>

IterationsNext == IterationCreate \/ IterationComplete

SpecIterations == StoreInit /\ [][IterationsNext]_vars

CreateReturned == probe.op = "iterations" /\ probe.call = "create"

\* C21: there is at most one iteration record for each iteration number of
\* the project; a create call for a number that has a record returns that
\* record's id, inserts no row and leaves its start time (and the rest of
\* the table) as it was
C21_IterationCreateIdempotent ==
    /\ \A i, j \in DOMAIN iterations :
         iterations[i].iteration_number = iterations[j].iteration_number => i = j
    /\ (CreateReturned /\ probe.existed) =>
         /\ iterations = probe.table_before
         /\ probe.id \in DOMAIN iterations
         /\ iterations[probe.id].iteration_number = probe.number
         /\ iterations[probe.id].started_at < probe.clock
    /\ (CreateReturned /\ ~probe.existed) =>
         /\ iterations = Append(probe.table_before,
                                IterationRow(probe.number, probe.clock))
         /\ probe.id = Len(iterations)

\* C21 witness: create for the number of a completed record, asked at a
\* later instant than the record's start, has returned that record's id
C21_Witness ==
    /\ CreateReturned
    /\ probe.existed
    /\ iterations[probe.id].completed
    /\ iterations[probe.id].started_at + 1 < probe.clock
    /\ Len(iterations) = MaxIterCfg

\* C23 as the specification states it: check reports saturation for every
\* metrics record whose papers_after has reached config.max_papers
C23_MaxPapersSaturates ==
    (DetCalled /\ DetM.papers_after >= DetCfg.max_papers)
        => det_out.is_saturated

\* C29 as the specification states it: an iteration record that has been
\* completed stays as it is (metrics and completion time) in every later step
C29_CompletedIterationImmutable ==
    [][\A i \in DOMAIN iterations :
          iterations[i].completed => iterations'[i] = iterations[i]]_vars

(***************************************************************************)
(* OpenAlexClient.search_by_doi called directly (no response cache).  The  *)
(* provider answers each attempt of _fetch with any status; _fetch is      *)
(* wrapped in tenacity's retry(stop=stop_after_attempt(3)) without         *)
(* reraise, which re-attempts after any exception and raises RetryError    *)
(* once the last attempt has failed.                                       *)
(***************************************************************************)
stop_after_attempt == 3

HttpStatuses == {"200", "404", "429", "500"}

Dois == {"10.1/x", "https://doi.org/10.1/x", "http://doi.org/10.1/x"}

\* doi if doi.startswith("http") else "https://doi.org/" + doi, then
\* replace("http://", "https://")
doi_url(doi) ==
    CASE doi = "10.1/x"                -> "https://doi.org/10.1/x"
      [] doi = "http://doi.org/10.1/x" -> "https://doi.org/10.1/x"
      [] OTHER                         -> doi

HTTPStatusError == "httpx.HTTPStatusError"
RetryError      == "tenacity.RetryError"

\* what search_by_doi does with what the wrapped _fetch gave it: a payload is
\* normalised and returned; an HTTPStatusError with status 404 gives None, any
\* other HTTPStatusError is raised again; any other exception is not caught
search_by_doi_result(fetched) ==
    IF fetched.kind = "payload"
      THEN [kind |-> "returned", value |-> "work", error |-> None]
    ELSE IF fetched.error = HTTPStatusError
      THEN IF fetched.status = "404"
             THEN [kind |-> "returned", value |-> None, error |-> None]
             ELSE [kind |-> "raised", value |-> None, error |-> HTTPStatusError]
    ELSE [kind |-> "raised", value |-> None, error |-> fetched.error]

\* what the wrapped _fetch gives its caller once the attempts are over
retry_outcome(statuses) ==
    IF statuses[Len(statuses)] = "200"
      THEN [kind |-> "payload", error |-> None, status |-> "200"]
      ELSE [kind |-> "exception", error |-> RetryError,
            status |-> statuses[Len(statuses)]]

SearchByDoi ==
    /\ probe.op = "none"
    /\ \E doi \in Dois :
         probe' = [op |-> "search_by_doi", doi |-> doi, url |-> doi_url(doi),
                   pc |-> "fetch",
                   statuses |-> <<>>,
                   result |-> [kind |-> "none", value |-> None, error |-> None]]
    /\ UNCHANGED <<storeVars, engineVars, last_call, det_in, det_out>>

\* one attempt of _fetch: status 429 and raise_for_status() raise
\* HTTPStatusError, status 200 returns the payload
FetchAttempt ==
    /\ probe.op = "search_by_doi"
    /\ probe.pc = "fetch"
    /\ \E status \in HttpStatuses :
         LET statuses == Append(probe.statuses, status)
         IN  IF status # "200" /\ Len(statuses) < stop_after_attempt
               THEN probe' = [probe EXCEPT !.statuses = statuses]
               ELSE probe' = [probe EXCEPT
                                !.statuses = statuses, !.pc = "over",
                                !.result = search_by_doi_result(
                                              retry_outcome(statuses))]
    /\ UNCHANGED <<storeVars, engineVars, last_call, det_in, det_out>>

\* the caller has its answer
SearchReturn ==
    /\ probe.op = "search_by_doi"
    /\ probe.pc = "over"
    /\ probe' = NoProbe
    /\ UNCHANGED <<storeVars, engineVars, last_call, det_in, det_out>>

FetchNext == SearchByDoi \/ FetchAttempt \/ SearchReturn

SpecFetch == StoreInit /\ [][FetchNext]_vars

\* C24 as the specification states it: a DOI lookup that the provider has
\* answered with 404 on every attempt ends with search_by_doi returning None
C24_NotFoundReturnsNone ==
    (/\ probe.op = "search_by_doi"
     /\ probe.pc = "over"
     /\ \A i \in DOMAIN probe.statuses : probe.statuses[i] = "404")
        => (probe.result.kind = "returned" /\ probe.result.value = None)

\* C26 as the specification states it: a work id recorded with method seed
\* (an entry gets method seed only from the first call made for the id) has
\* method seed after every later call; an id never recorded reads as method
\* seed with an empty source set
C26_SeedNeverOverridden ==
    \A w \in TrackedIds :
        /\ (CallsFor(w) # <<>> /\ CallsFor(w)[1].method = "seed")
             => get_discovery_method(discoveries, w) = "seed"
        /\ (CallsFor(w) = <<>>)
             => /\ get_discovery_method(discoveries, w) = "seed"
                /\ get_discovery_sources(discoveries, w) = {}

(***************************************************************************)
(* SnowballEngine._initialize and ._run_iteration called directly on one   *)
(* engine: _run_iteration(1), then _run_iteration(2), ... as the loop of   *)
(* run() calls it, without run()'s saturation test between the calls       *)
(***************************************************************************)
\* await engine._initialize()
InitializeCall ==
    /\ pc = "ready"
    /\ working_set' = list_seeds(papers)
    /\ all_collected' = list_seeds(papers)
    /\ IF list_seeds(papers) = <<>>
         THEN /\ pc' = "raised"
              /\ run_result' = Raised(NoSeedsError)
         ELSE /\ pc' = "loop"
              /\ run_result' = run_result
    /\ UNCHANGED <<storeVars, callVars, config, project, stop_requested,
                   discoveries, history, iteration_count, iteration_id,
                   existing_ids, tasks, candidates_by_source, candidates,
                   selected_papers, answered, metrics, saturation_result>>

\* await engine._run_iteration(iteration_count + 1)
RunIterationCall ==
    /\ pc = "loop"
    /\ iteration_count < MaxIterCfg
    /\ iteration_count' = iteration_count + 1
    /\ StartIteration(iteration_count + 1)
    /\ UNCHANGED <<papers, projectDb, callVars, config, project, working_set,
                   all_collected, stop_requested, discoveries, history,
                   candidates, selected_papers, metrics, saturation_result,
                   run_result>>

\* _run_iteration has returned its metrics
RunIterationReturn ==
    /\ pc = "callback"
    /\ pc' = "loop"
    /\ UNCHANGED <<storeVars, callVars, config, project, working_set,
                   all_collected, stop_requested, discoveries, history,
                   iteration_count, iteration_id, existing_ids, tasks,
                   candidates_by_source, candidates, selected_papers, answered,
                   metrics, saturation_result, run_result>>

RunIterationNext ==
    \/ \E w \in WorkIds : ImportSeed(w)
    \/ NewEngine
    \/ InitializeCall
    \/ RunIterationCall
    \/ \E t \in tasks : CollectorFails(t)
    \/ \E t \in tasks : CollectorResumes(t)
    \/ AfterGather
    \/ CompleteIteration
    \/ RunIterationReturn

SpecRunIteration == Init /\ [][RunIterationNext]_vars

EarlierRunPaper(w) ==
    /\ pc = "idle"
    /\ list_seeds(papers) # <<>>
    /\ Len(papers) < MaxSeeds + 1
    /\ w \in Range(get_citing_works(list_seeds(papers)[1]))
    /\ LET paper == PaperRow(w, "forward", {list_seeds(papers)[1]}, 1, 0)
       IN  /\ papers' = PaperRepository_create(papers, paper).table
           /\ last_call' = CreateCall(papers, paper)
    /\ UNCHANGED <<iterations, projectDb, engineVars, det_in, det_out, probe>>

ResumeNext ==
    \/ \E w \in WorkIds : ImportSeed(w)
    \/ \E w \in WorkIds : EarlierRunPaper(w)
    \/ NewEngine
    \/ RunInitialize
    \/ LoopTop
    \/ \E t \in tasks : CollectorFails(t)
    \/ \E t \in tasks : CollectorResumes(t)
    \/ AfterGather
    \/ CompleteIteration
    \/ CheckSaturation

SpecResume == Init /\ [][ResumeNext]_vars

MaxOrderWorks == 5     \* the works the Work Source can answer with

OrderWorks == 1..MaxOrderWorks

\* what get_citing_works answers for one paper: nothing or one work
OrderResponses == {<<>>} \cup { <<w>> : w \in OrderWorks }

OrderWorkingSets == { <<ws[1], ws[2]>> : ws \in { x \in WorkIds \X WorkIds : x[1] < x[2] } }

\* _filter_candidates, _score_candidates and scored_candidates[:top_count]:
\* the external ids _select_papers takes from the head of the scored list
ScoredSelection(cands, ws, cfg) ==
    LET filtered == filter_candidates(cands, cfg, Range(ws))
        scored   == score_candidates(filtered, create_default_context(ws))
        selected == select_papers(scored, cfg)
    IN  IF \E i \in DOMAIN filtered : RecentCitationsRaises(filtered[i])
          THEN [raised |-> TRUE, ids |-> {}]
          ELSE [raised |-> FALSE,
                ids |-> { selected[i].openalex_id : i \in DOMAIN selected }]

\* _collect_candidates up to the gather: one forward task per paper
CollectCandidates ==
    /\ probe = NoProbe
    /\ \E ws \in OrderWorkingSets, r1 \in OrderResponses, r2 \in OrderResponses,
          ppi \in {1, 2} :
         probe' = [op |-> "gather", working_set |-> ws, responses |-> <<r1, r2>>,
                   papers_per_iteration |-> ppi, pending |-> {1, 2},
                   forward |-> <<>>, tracker |-> EmptyTracker,
                   selection |-> [raised |-> FALSE, ids |-> {}]]
    /\ UNCHANGED <<storeVars, engineVars, last_call, det_in, det_out>>

\* the forward collector of paper number i resumes with its answer
ForwardResumes(i) ==
    /\ probe.op = "gather"
    /\ i \in probe.pending
    /\ LET out == Emit([cands |-> probe.forward, tracker |-> probe.tracker],
                       probe.responses[i], "forward", probe.working_set[i],
                       Range(probe.working_set))
       IN  probe' = [probe EXCEPT !.forward = out.cands, !.tracker = out.tracker,
                                  !.pending = @ \ {i}]
    /\ UNCHANGED <<storeVars, engineVars, last_call, det_in, det_out>>

\* the gather is over: filter, score, take the head of the scored list
SelectFromScored ==
    /\ probe.op = "gather"
    /\ probe.pending = {}
    /\ probe' = [probe EXCEPT
                   !.op = "selected",
                   !.selection = ScoredSelection(probe.forward, probe.working_set,
                                   [config EXCEPT !.papers_per_iteration =
                                                     probe.papers_per_iteration])]
    /\ UNCHANGED <<storeVars, engineVars, last_call, det_in, det_out>>

OrderReturn ==
    /\ probe.op = "selected"
    /\ probe' = NoProbe
    /\ UNCHANGED <<storeVars, engineVars, last_call, det_in, det_out>>

OrderNext ==
    \/ CollectCandidates
    \/ \E i \in {1, 2} : ForwardResumes(i)
    \/ SelectFromScored
    \/ OrderReturn

SpecOrder == StoreInit /\ [][OrderNext]_vars

\* the candidates when the collector of the first paper is answered first
AnsweredInTaskOrder(p) ==
    LET ids   == Range(p.working_set)
        first == Emit([cands |-> <<>>, tracker |-> EmptyTracker], p.responses[1],
                      "forward", p.working_set[1], ids)
    IN  Emit(first, p.responses[2], "forward", p.working_set[2], ids).cands

MaxHistory == 3     \* add_iteration calls made on one tracker directly

ReasonGrowthDeclining  == "Growth rate declining (consider stopping soon)"
ReasonNoveltyDeclining == "Novelty rate declining (consider stopping soon)"

\* all(rates[i] >= rates[i + 1] for i in range(len(rates) - 1))
NonIncreasing(rates) ==
    \A i \in 1..(Len(rates) - 1) : RatGE(rates[i], rates[i + 1])

\* self.history[-3:]
LastThree(hist) == SubSeq(hist, Max(1, Len(hist) - 2), Len(hist))

\* SaturationTracker.check looking for a trend in two recorded iterations
SaturationTracker_check_TrendFromTwo(hist, cfg) ==
    IF hist = <<>> THEN SaturationResult(FALSE, None, RatZero)
    ELSE LET basic_result == check(hist[Len(hist)], cfg)
             last == LastThree(hist)
         IN  IF basic_result.is_saturated THEN basic_result
             ELSE IF Len(hist) >= 2
                     /\ NonIncreasing([i \in DOMAIN last |-> last[i].growth_rate])
               THEN SaturationResult(FALSE, ReasonGrowthDeclining, Rat(3, 5))
             ELSE IF Len(hist) >= 2
                     /\ NonIncreasing([i \in DOMAIN last |-> last[i].novelty_rate])
               THEN SaturationResult(FALSE, ReasonNoveltyDeclining, Rat(3, 5))
             ELSE SaturationResult(FALSE, None, RatZero)

\* SaturationTracker.check
SaturationTracker_check(hist, cfg) ==
    IF hist = <<>> THEN SaturationResult(FALSE, None, RatZero)
    ELSE LET basic_result == check(hist[Len(hist)], cfg)
             last == LastThree(hist)
         IN  IF basic_result.is_saturated THEN basic_result
             ELSE IF Len(hist) >= 3
                     /\ NonIncreasing([i \in DOMAIN last |-> last[i].growth_rate])
               THEN SaturationResult(FALSE, ReasonGrowthDeclining, Rat(3, 5))
             ELSE IF Len(hist) >= 3
                     /\ NonIncreasing([i \in DOMAIN last |-> last[i].novelty_rate])
               THEN SaturationResult(FALSE, ReasonNoveltyDeclining, Rat(3, 5))
             ELSE SaturationResult(FALSE, None, RatZero)

\* the configuration of the tracker: the default thresholds and a
\* max_iterations the recorded iterations stay below
TrendConfig ==
    EngineConfig(MaxHistory + 2, 50, DefaultGrowth, DefaultNovelty, "semi-automatic")

\* rates below both thresholds, at the novelty threshold, above both
TrendRates == { Rat(1, 50), Rat(1, 10), Rat(1, 5) }

\* saturation_tracker.add_iteration(metrics)
AddIteration ==
    /\ probe = NoProbe
    /\ Len(history) < MaxHistory
    /\ \E k \in 0..1, g \in TrendRates, v \in TrendRates :
         history' = Append(history,
                      [iteration_number |-> Len(history) + 1,
                       papers_before |-> 100, papers_after |-> 100 + k,
                       new_papers |-> k, growth_rate |-> g, novelty_rate |-> v])
    /\ UNCHANGED <<storeVars, callVars, config, project, working_set,
                   all_collected, stop_requested, discoveries, pc,
                   iteration_count, iteration_id, existing_ids, tasks,
                   candidates_by_source, candidates, selected_papers, answered,
                   metrics, saturation_result, run_result>>

\* saturation_tracker.check()
SaturationTrackerCheck ==
    /\ probe = NoProbe
    /\ probe' = [op |-> "check",
                 result |-> SaturationTracker_check(history, TrendConfig)]
    /\ UNCHANGED <<storeVars, engineVars, last_call, det_in, det_out>>

SaturationTrackerReturn ==
    /\ probe.op = "check"
    /\ probe' = NoProbe
    /\ UNCHANGED <<storeVars, engineVars, last_call, det_in, det_out>>

SaturationTrackerNext ==
    \/ AddIteration
    \/ SaturationTrackerCheck
    \/ SaturationTrackerReturn

SpecSaturationTracker == StoreInit /\ [][SaturationTrackerNext]_vars

\* C34: the tracker reports saturation only when the detector does on the
\* latest recorded metrics, and then returns the detector's result; it gives
\* a declining-trend reason only with is_saturated false, confidence 0.6,
\* at least 3 recorded iterations and growth rates or novelty rates of the
\* last 3 that never go up; on an empty history it returns not saturated,
\* no reason, confidence 0
C34_TrackerInformational ==
    probe.op = "check" =>
        /\ probe.result.is_saturated
             => /\ history # <<>>
                /\ check(history[Len(history)], TrendConfig).is_saturated
                /\ probe.result = check(history[Len(history)], TrendConfig)
        /\ probe.result.reason \in {ReasonGrowthDeclining, ReasonNoveltyDeclining}
             => /\ ~probe.result.is_saturated
                /\ probe.result.confidence = Rat(3, 5)
                /\ Len(history) >= 3
                /\ \/ \A i \in (Len(history) - 2)..(Len(history) - 1) :
                        ~RatLT(history[i].growth_rate, history[i + 1].growth_rate)
                   \/ \A i \in (Len(history) - 2)..(Len(history) - 1) :
                        ~RatLT(history[i].novelty_rate, history[i + 1].novelty_rate)
        /\ history = <<>> => probe.result = SaturationResult(FALSE, None, RatZero)

\* C34 witness: three iterations recorded, the latest not saturated for the
\* detector, growth going up and novelty never: the novelty trend is reported
C34_Witness ==
    /\ probe.op = "check"
    /\ Len(history) = 3
    /\ ~check(history[3], TrendConfig).is_saturated
    /\ RatLT(history[1].growth_rate, history[2].growth_rate)
    /\ probe.result = SaturationResult(FALSE, ReasonNoveltyDeclining, Rat(3, 5))

(***************************************************************************)
(* The Work Source calls of one iteration for one paper of the working     *)
(* set: the three collectors of engine.py and, under each of their calls,  *)
(* the attempts of OpenAlexClient._fetch                                   *)
(***************************************************************************)
\* stop_after_attempt one attempt late
retry_stop_OneLate(attempt_number) == attempt_number > stop_after_attempt

\* tenacity's stop_after_attempt(3): stop once this many attempts were made
retry_stop(attempt_number) == attempt_number >= stop_after_attempt

CollectorTask(ch) == [channel |-> ch, stage |-> 1, attempt |-> 0]

\* _collect_candidates builds the three collectors of a paper with
\* len(author_ids) authors, with or without referenced works
CollectStart ==
    /\ probe = NoProbe
    /\ \E n \in 0..(MaxAuthors + 1), refs \in BOOLEAN :
         probe' = [op |-> "collecting",
                   author_ids |-> [i \in 1..n |-> i],
                   has_references |-> refs,
                   tasks |-> {CollectorTask("forward"), CollectorTask("backward")}
                               \cup (IF n > 0 THEN {CollectorTask("author")} ELSE {}),
                   calls |-> [forward |-> 0, backward |-> 0, author |-> 0],
                   requests |-> 0,
                   max_attempts |-> 0]
    /\ UNCHANGED <<storeVars, engineVars, last_call, det_in, det_out>>

\* the tasks a collector goes on with when its call is answered
AfterAnswer(t, p) ==
    CASE t.channel = "forward" -> {}
      [] t.channel = "backward" /\ t.stage = 1 ->
           \* get_work answered; get_works_batch follows if there are references
           IF p.has_references THEN {[t EXCEPT !.stage = 2, !.attempt = 0]} ELSE {}
      [] t.channel = "backward" /\ t.stage = 2 -> {}
      [] OTHER ->
           \* the next of paper.author_ids[:5]
           IF t.stage < Min(Len(p.author_ids), MaxAuthors)
             THEN {[t EXCEPT !.stage = @ + 1, !.attempt = 0]} ELSE {}

\* one attempt of _fetch under the pending call of collector t: a request,
\* answered or failed; a failed attempt is repeated by _fetch until
\* retry_stop, then the call raises and the collector's except clause ends
\* the collector
FetchRequest(t, ok) ==
    /\ probe.op = "collecting"
    /\ t \in probe.tasks
    /\ LET made == t.attempt + 1
           then == IF ok THEN AfterAnswer(t, probe)
                   ELSE IF retry_stop(made) THEN {}
                   ELSE {[t EXCEPT !.attempt = made]}
       IN  probe' = [probe EXCEPT
                       !.tasks = (@ \ {t}) \cup then,
                       !.calls[t.channel] = IF t.attempt = 0 THEN @ + 1 ELSE @,
                       !.requests = @ + 1,
                       !.max_attempts = Max(@, made)]
    /\ UNCHANGED <<storeVars, engineVars, last_call, det_in, det_out>>

\* asyncio.gather has returned
CollectReturn ==
    /\ probe.op = "collecting"
    /\ probe.tasks = {}
    /\ probe' = NoProbe
    /\ UNCHANGED <<storeVars, engineVars, last_call, det_in, det_out>>

RequestsNext ==
    \/ CollectStart
    \/ \E t \in (IF probe.op = "collecting" THEN probe.tasks ELSE {}) :
         \E ok \in BOOLEAN : FetchRequest(t, ok)
    \/ CollectReturn

SpecRequests == StoreInit /\ [][RequestsNext]_vars

\* C35 as the specification states it: for one paper of the working set the
\* engine makes at most one Work Source call on the forward channel, at most
\* one on the backward channel, and at most one per author, for at most 5
\* authors; no call takes more than 3 attempts
C35_OneCallPerChannel ==
    probe.op = "collecting" =>
        /\ probe.calls.forward <= 1
        /\ probe.calls.backward <= 1
        /\ probe.calls.author <= Min(Len(probe.author_ids), 5)
        /\ probe.max_attempts <= 3

\* C35, amended: the backward channel makes up to two calls (get_work, then
\* get_works_batch), the other channels as stated; no call takes more than
\* 3 attempts, so one paper causes at most 3 * (1 + 2 + 5) requests in an
\* iteration
C35_BoundedRequests ==
    probe.op = "collecting" =>
        /\ probe.calls.forward <= 1
        /\ probe.calls.backward <= 2
        /\ probe.calls.author <= Min(Len(probe.author_ids), 5)
        /\ probe.max_attempts <= 3
        /\ probe.requests <= 3 * (probe.calls.forward + probe.calls.backward
                                    + probe.calls.author)
        /\ probe.requests <= 24

\* C35 witness: a paper with more than 5 authors, every call of which failed
\* after its third attempt or was answered on it: 3 attempts on the forward
\* call, 6 on the two backward calls, 15 on the calls for the first 5 authors
C35_Witness ==
    /\ probe.op = "collecting"
    /\ Len(probe.author_ids) = 6
    /\ probe.tasks = {}
    /\ probe.calls = [forward |-> 1, backward |-> 2, author |-> 5]
    /\ probe.requests = 24

(***************************************************************************)
(* Scorer.get_score_breakdown called directly on a work and a scoring      *)
(* context whose seed papers carry any reference lists                     *)
(***************************************************************************)
MaxScoreSeeds == 2     \* seed papers of a scoring context

\* reference lists of a seed: empty, one work, two works (the same twice
\* too), over two works of which neither makes the scorer raise
RefLists ==
    {<<>>} \cup { <<a>> : a \in {1, 3} } \cup { <<a, b>> : a \in {1, 3}, b \in {1, 3} }

\* contexts as create_default_context builds them from n seed papers, the
\* papers' reference lists being any of RefLists
ScoreContexts ==
    UNION { { [create_default_context([i \in 1..n |-> i]) EXCEPT !.seed_references = refs] :
                refs \in [1..n -> RefLists] } : n \in 0..MaxScoreSeeds }

\* scorer.get_score_breakdown(work, context); the call raises on a work the
\* recent-citations component cannot handle
GetScoreBreakdown ==
    /\ probe = NoProbe
    /\ \E w \in WorkIds, ctx \in ScoreContexts :
         probe' = [op |-> "get_score_breakdown", work |-> w, context |-> ctx,
                   raised |-> RecentCitationsRaises(w),
                   foundational_score |-> calculate_foundational_score(w, ctx),
                   breakdown |-> get_score_breakdown(w, ctx)]
    /\ UNCHANGED <<storeVars, engineVars, last_call, det_in, det_out>>

ScoreReturn ==
    /\ probe.op = "get_score_breakdown"
    /\ probe' = NoProbe
    /\ UNCHANGED <<storeVars, engineVars, last_call, det_in, det_out>>

ScorerNext == GetScoreBreakdown \/ ScoreReturn

SpecScorer == StoreInit /\ [][ScorerNext]_vars

\* the seeds of the context whose reference list holds the work
CitingSeeds(p) ==
    { i \in 1..Len(p.context.seed_papers) :
        \E k \in 1..Len(p.context.seed_references[i]) :
           p.context.seed_references[i][k] = p.work }

\* C37: the foundational score times the number of seeds is the number of
\* seeds whose reference list holds the work (a seed that lists the work
\* twice counts once); it is 0 for a context without seeds and 1 when the
\* only seed references the work; when the breakdown is returned, every
\* component is >= 0, the foundational component is that score, and the total
\* is the weighted sum of the five components and >= 0
C37_FoundationalScoreAndTotal ==
    probe.op = "get_score_breakdown" =>
        LET n == Len(probe.context.seed_papers)
            b == probe.breakdown
        IN  /\ n = 0 => probe.foundational_score = 0
            /\ n > 0 => probe.foundational_score * n = Cardinality(CitingSeeds(probe)) * Unit
            /\ (n = 1 /\ CitingSeeds(probe) = {1}) => probe.foundational_score = Unit
            /\ ~probe.raised =>
                 /\ b.foundational_score = probe.foundational_score
                 /\ b.citation_velocity >= 0 /\ b.recent_citations >= 0
                 /\ b.foundational_score >= 0 /\ b.author_overlap >= 0
                 /\ b.recency_bonus >= 0
                 /\ b.total = 25 * b.citation_velocity + 20 * b.recent_citations
                                + 25 * b.foundational_score + 15 * b.author_overlap
                                + 15 * b.recency_bonus
                 /\ b.total >= 0

\* C37 witness: two seeds, the first lists the work twice, the second does
\* not list it: the foundational score is one half
C37_Witness ==
    /\ probe.op = "get_score_breakdown"
    /\ ~probe.raised
    /\ Len(probe.context.seed_papers) = 2
    /\ probe.context.seed_references[1] = <<probe.work, probe.work>>
    /\ CitingSeeds(probe) = {1}
    /\ probe.breakdown.foundational_score * 2 = Unit

====
